---- MODULE Spec2Model ----
(***************************************************************************)
(* zstd-stream: engine instances (ZstdCompressor / ZstdDecompressor) over  *)
(* a foreign codec module, the whole-buffer facade (compress, decompress)  *)
(* and the pull-driven stream pipeline (compressStream, decompressStream). *)
(*                                                                         *)
(* Sizes are scaled down: bytes range over 0..MaxByte, the scratch buffers *)
(* hold a handful of bytes, and the packed 64-bit step result is packed in *)
(* 2*HalfBits bits.  The codec module itself (the WebAssembly build) is    *)
(* not part of the sources; it is modelled from its interface contract.    *)
(***************************************************************************)
EXTENDS Integers, Sequences, FiniteSets, TLC

\* ------------------------------------------------------------------ bounds
MaxByte == 1        \* byte values are 0..MaxByte
MaxLen == 3         \* longest logical input
MaxData == 2        \* longest chunk handed to an instance that is driven directly
MaxHandles == 3     \* foreign handles (addresses) that can be live at once
MaxGrain == 5       \* most wire bytes the decoder takes in per step
MaxAt == 2          \* latest decode step at which a step fault is injected
HalfBits == 3       \* width of each half of the packed step result
LevelProbe == 20    \* construction is tried with levels 0..LevelProbe
MaxPend == 5        \* most wire bytes a compression context may hold back
MaxChunks == 3       \* most chunks an input stream is cut into
MaxCalls == 4       \* most facade calls made by concurrent callers
MaxKept == 2        \* the collected chunks of a decode loop are counted up to this

\* ------------------------------------------------------- program constants
MinLevel == 1
MaxLevel == 19
DefaultLevel == 3
FlushEnd == 2
FlushContinue == 0

Bytes == 0..MaxByte
Handles == 1..MaxHandles
Levels == 0..LevelProbe
\* The levels on either side of each end of the accepted range, and the default.
EdgeLevels == {MinLevel - 1, MinLevel, DefaultLevel, MaxLevel, MaxLevel + 1}

Min(a, b) == IF a < b THEN a ELSE b

RECURSIVE Pow2(_)
Pow2(n) == IF n = 0 THEN 1 ELSE 2 * Pow2(n - 1)

Half == Pow2(HalfBits)

SeqsUpTo(S, n) == UNION {[1..k -> S] : k \in 0..n}

Take(s, n) == SubSeq(s, 1, Min(n, Len(s)))
Drop(s, n) == SubSeq(s, Min(n, Len(s)) + 1, Len(s))

RECURSIVE Flatten(_)
Flatten(ss) == IF ss = <<>> THEN <<>> ELSE Head(ss) \o Flatten(Tail(ss))

\* ---------------------------------------------------------------- wire format
\* A frame is a magic symbol, the literal bytes, and an end mark.
Magic == MaxByte + 1
EndMark == MaxByte + 2
Wire == 0..EndMark

Encode(b) == <<Magic>> \o b \o <<EndMark>>

\* The decoder's parser: st is "start" (between frames) or "body".
RECURSIVE Parse(_, _)
Parse(st, syms) ==
  IF syms = <<>> THEN [st |-> st, out |-> <<>>, ok |-> TRUE]
  ELSE LET s == Head(syms) IN
       IF st = "start"
       THEN IF s = Magic THEN Parse("body", Tail(syms))
            ELSE [st |-> st, out |-> <<>>, ok |-> FALSE]
       ELSE IF s = Magic THEN [st |-> st, out |-> <<>>, ok |-> FALSE]
            ELSE IF s = EndMark THEN Parse("start", Tail(syms))
            ELSE LET r == Parse("body", Tail(syms))
                 IN [r EXCEPT !.out = <<s>> \o @]


\* ------------------------------------------------------------ foreign memory
\* One cell per handle.  role: "free", "cctx", "dctx", "buf" (scratch buffer)
\* or "src" (input copy); owner is the engine instance that allocated it.
\* A context keeps its codec state in open/st/pend; a memory block keeps its
\* bytes in pend.
FreeCell ==
  [role |-> "free", owner |-> 0, inited |-> FALSE, open |-> FALSE,
   st |-> "start", pend |-> <<>>, size |-> 0]

EmptyHeap == [h \in Handles |-> FreeCell]

Live(H) == {h \in Handles : H[h].role # "free"}

\* The allocator hands out the lowest free address, 0 when there is none.
NewHandle(H) ==
  IF Live(H) = Handles THEN 0
  ELSE CHOOSE h \in Handles \ Live(H) : \A k \in Handles \ Live(H) : h <= k

\* Sizes the codec module reports for its stream buffers.
CStreamOutSize == 3
DStreamOutSize == 2

\* ------------------------------------------------------------- call machine
\* A synchronous call threads a machine M through the primitives it invokes:
\* e the instance, H the heap, calls the log of primitives invoked, bad the
\* misuses seen (a free or a use of a handle the instance does not hold),
\* err/out the way the call ends.
NoEngine ==
  [id |-> 0, kind |-> "none", level |-> 0, module |-> FALSE, ctx |-> 0, buffer |-> 0,
   bufferSize |-> 0, destroyed |-> FALSE]

Machine(e, H) ==
  [e |-> e, H |-> H, calls |-> <<>>, bad |-> {}, err |-> "none", out |-> <<>>]

LogR(M, f, a, b, r) ==
  [M EXCEPT !.calls = Append(@, [f |-> f, a |-> a, b |-> b, r |-> r])]

Log(M, f, a, b) == LogR(M, f, a, b, 0)

Throw(M, err) == [M EXCEPT !.err = err, !.out = <<>>]

Held(M, h, role) == h \in Handles /\ M.H[h].role = role /\ M.H[h].owner = M.e.id

Misuse(M, h, role, what) ==
  IF Held(M, h, role) THEN M ELSE [M EXCEPT !.bad = @ \cup {what}]

\* _malloc(size): ptr is 0 on failure.
Malloc(M, role, size, fail) ==
  LET h == IF fail THEN 0 ELSE NewHandle(M.H)
      M1 == IF h = 0 THEN M
            ELSE [M EXCEPT !.H[h] = [FreeCell EXCEPT !.role = role,
                                                    !.owner = M.e.id,
                                                    !.size = size]]
  IN [ptr |-> h, M |-> Log(M1, "malloc", size, h)]

\* Mutant of Free: the call is missing.
FreeSkipped(M, h, role) == M

\* _free(ptr)
Free(M, h, role) ==
  LET M1 == Misuse(M, h, role, "badFree")
      M2 == IF h \in Handles THEN [M1 EXCEPT !.H[h] = FreeCell] ELSE M1
  IN Log(M2, "free", h, 0)

\* _createCCtx() / _createDCtx(): handle 0 on failure.
CreateCtx(M, role, fail) ==
  LET h == IF fail THEN 0 ELSE NewHandle(M.H)
      M1 == IF h = 0 THEN M
            ELSE [M EXCEPT !.H[h] = [FreeCell EXCEPT !.role = role, !.owner = M.e.id]]
  IN [ptr |-> h, M |-> Log(M1, IF role = "cctx" THEN "createCCtx" ELSE "createDCtx", 0, h)]

\* _freeCCtx(ctx) / _freeDCtx(ctx)
FreeCtx(M, h, role) ==
  LET M1 == Misuse(M, h, role, "badFree")
      M2 == IF h \in Handles THEN [M1 EXCEPT !.H[h] = FreeCell] ELSE M1
  IN Log(M2, IF role = "cctx" THEN "freeCCtx" ELSE "freeDCtx", h, 0)

\* _initCStream(ctx, level): 0 on success.
InitCStream(M, h, level, fails) ==
  LET M1 == Misuse(M, h, "cctx", "badUse")
      M2 == IF fails \/ h \notin Handles THEN M1 ELSE [M1 EXCEPT !.H[h].inited = TRUE]
  IN [rc |-> IF fails THEN 1 ELSE 0,
      M |-> LogR(M2, "initCStream", h, level, IF fails THEN 1 ELSE 0)]

\* _initDStream(ctx): the size hint for the first read on success;
\* rc is what the oracle makes the module return ("zero", "error" or "ok").
InitDStream(M, h, rc) ==
  LET M1 == Misuse(M, h, "dctx", "badUse")
      M2 == IF rc # "ok" \/ h \notin Handles THEN M1 ELSE [M1 EXCEPT !.H[h].inited = TRUE]
      Status(r) == [rc |-> r, M |-> LogR(M2, "initDStream", h, 0, r)]
  IN Status(CASE rc = "ok" -> 1 [] rc = "zero" -> 0 [] OTHER -> -1)

\* HEAPU8.set(data, ptr)
PutBytes(M, h, data) ==
  IF h \in Handles THEN [Misuse(M, h, "src", "badUse") EXCEPT !.H[h].pend = data] ELSE M


\* ------------------------------------------------------------- codec steps
\* An oracle o fixes what the codec module does during one process call:
\*   fault  the failure it reports, if any
\*   at     the decode step a step fault strikes at
\*   hold   whether a continue-step keeps its output buffered
\*   grain  how many wire bytes one decode step takes in at most
\*   drop   whether a compression step leaves unconsumed the input whose
\*          output did not fit into dst (the call reports only the bytes
\*          written, so that input is never offered again)
StepErrorCode == 5

Pack(consumed, produced) == consumed * Half + produced

\* _compressStream(ctx, dst, dstSize, src, srcSize, end): bytes written to dst,
\* negative on error.  Output that does not fit in dst stays in the context,
\* unless the step left the input behind it unconsumed.
CompressStep(M, ctx, dst, dstSize, src, srcSize, end, o) ==
  LET M1 == Misuse(Misuse(Misuse(M, ctx, "cctx", "badUse"), dst, "buf", "badUse"),
                   src, "src", "badUse")
      ok == Held(M, ctx, "cctx") /\ Held(M, dst, "buf") /\ Held(M, src, "src")
            /\ M.H[ctx].inited /\ o.fault # "stepErr"
  IN IF ~ok THEN [res |-> -StepErrorCode,
                  M |-> LogR(M1, "compressStream", srcSize, end, -StepErrorCode)]
     ELSE LET c == M.H[ctx]
              wire == (IF c.open THEN <<>> ELSE <<Magic>>)
                      \o Take(M.H[src].pend, srcSize)
                      \o (IF end = FlushEnd THEN <<EndMark>> ELSE <<>>)
              all == c.pend \o wire
              n == IF end = FlushEnd \/ ~o.hold THEN Min(dstSize, Len(all)) ELSE 0
              M2 == [M1 EXCEPT !.H[ctx].open = (end # FlushEnd),
                               !.H[ctx].pend = IF o.drop THEN <<>> ELSE Drop(all, n),
                               !.H[dst].pend = Take(all, n)]
          IN [res |-> n, M |-> LogR(M2, "compressStream", srcSize, end, n)]

\* _decompressStream(ctx, dst, dstSize, src + off, srcSize): consumed and
\* produced packed in one number, negative on error.  A step first flushes
\* what the context still holds; once that is out it takes in up to grain
\* wire bytes, decodes them and flushes what fits.
DecompressStep(M, ctx, dst, dstSize, src, off, srcSize, o, k) ==
  LET M1 == Misuse(Misuse(Misuse(M, ctx, "dctx", "badUse"), dst, "buf", "badUse"),
                   src, "src", "badUse")
      ok == Held(M, ctx, "dctx") /\ Held(M, dst, "buf") /\ Held(M, src, "src")
            /\ M.H[ctx].inited /\ ~(o.fault = "stepErr" /\ o.at = k)
  IN IF ~ok THEN [res |-> -StepErrorCode,
                  M |-> LogR(M1, "decompressStream", off, srcSize, -StepErrorCode)]
     ELSE IF o.fault = "stall" /\ o.at = k
     THEN [res |-> 0, M |-> LogR(M1, "decompressStream", off, srcSize, 0)]
     ELSE LET c == M.H[ctx]
              n1 == Min(dstSize, Len(c.pend))
              left == Drop(c.pend, n1)
              take == IF left = <<>> THEN Min(o.grain, srcSize) ELSE 0
              p == Parse(c.st, SubSeq(M.H[src].pend, off + 1, off + take))
              n2 == Min(dstSize - n1, Len(p.out))
              res == Pack(take, n1 + n2)
              M2 == [M1 EXCEPT !.H[ctx].st = p.st,
                               !.H[ctx].pend = left \o Drop(p.out, n2),
                               !.H[dst].pend = Take(c.pend, n1) \o Take(p.out, n2)]
          IN IF ~p.ok
             THEN [res |-> -StepErrorCode,
                   M |-> LogR(M1, "decompressStream", off, srcSize, -StepErrorCode)]
             ELSE [res |-> res, M |-> LogR(M2, "decompressStream", off, srcSize, res)]


\* --------------------------------------------------------- engine instances
\* Mutant of CompressorCleanup: the handles are freed but not reset to 0.
CompressorCleanupNoReset(M) ==
  IF ~M.e.module THEN M
  ELSE LET M1 == IF M.e.ctx # 0 THEN FreeCtx(M, M.e.ctx, "cctx") ELSE M
       IN IF M.e.buffer # 0 THEN Free(M1, M.e.buffer, "buf") ELSE M1

\* ZstdCompressor.cleanup
CompressorCleanup(M) ==
  IF ~M.e.module THEN M
  ELSE LET M1 == IF M.e.ctx # 0 THEN FreeCtx(M, M.e.ctx, "cctx") ELSE M
           M2 == IF M.e.buffer # 0 THEN Free(M1, M.e.buffer, "buf") ELSE M1
       IN [M2 EXCEPT !.e.ctx = 0, !.e.buffer = 0]

\* Mutant of DecompressorCleanup: the handles are forgotten without being freed.
DecompressorCleanupForget(M) ==
  IF ~M.e.module THEN M ELSE [M EXCEPT !.e.ctx = 0, !.e.buffer = 0]

\* ZstdDecompressor.cleanup
DecompressorCleanup(M) ==
  IF ~M.e.module THEN M
  ELSE LET M1 == IF M.e.ctx # 0 THEN FreeCtx(M, M.e.ctx, "dctx") ELSE M
           M2 == IF M.e.buffer # 0 THEN Free(M1, M.e.buffer, "buf") ELSE M1
       IN [M2 EXCEPT !.e.ctx = 0, !.e.buffer = 0]

Cleanup(M) == IF M.e.kind = "C" THEN CompressorCleanup(M) ELSE DecompressorCleanup(M)

\* Mutant of Destroy: the flag is set and nothing is cleaned up.
DestroyFlagOnly(M) == IF ~M.e.destroyed THEN [M EXCEPT !.e.destroyed = TRUE] ELSE M

\* BaseProcessor.destroy: the guard, and the method.
DestroyNeeded(e) == ~e.destroyed

Destroy(M) ==
  IF DestroyNeeded(M.e) THEN [Cleanup(M) EXCEPT !.e.destroyed = TRUE] ELSE M

\* Mutant of LevelRejected: only the lower limit is tested.
LevelRejectedBelow(level) == level < MinLevel

\* ZstdCompressor.constructor: the level check, and the fields of a new instance.
LevelRejected(level) == level < MinLevel \/ level > MaxLevel

NewCompressor(id, level) ==
  [id |-> id, kind |-> "C", level |-> level, module |-> FALSE, ctx |-> 0, buffer |-> 0,
   bufferSize |-> 0, destroyed |-> FALSE]

NewDecompressor(id) ==
  [id |-> id, kind |-> "D", level |-> 0, module |-> FALSE, ctx |-> 0, buffer |-> 0,
   bufferSize |-> 0, destroyed |-> FALSE]

\* Mutant of ProcessRefusal: the destroyed flag is not looked at.
ProcessRefusalNoDestroyed(e) == IF ~e.module THEN "NotInitialized" ELSE "none"

\* The checks process makes before it touches the codec module.
ProcessRefusal(e) ==
  IF ~e.module THEN "NotInitialized" ELSE IF e.destroyed THEN "Destroyed" ELSE "none"

\* ZstdCompressor.process, lines 38-44: the context, created on first use.
CompressorEnsureCtx(M, o) ==
  IF M.e.ctx # 0 THEN M
  ELSE LET Set(c) == [c.M EXCEPT !.e.ctx = c.ptr]
           Inited(i) == IF i.rc # 0 THEN Throw(CompressorCleanup(i.M), "Initialization")
                        ELSE i.M
           Created(c) ==
             IF c.ptr = 0 THEN Throw(CompressorCleanup(Set(c)), "Initialization")
             ELSE Inited(InitCStream(Set(c), c.ptr, M.e.level, o.fault = "initFail"))
       IN Created(CreateCtx(M, "cctx", o.fault = "ctxNull"))

\* ZstdCompressor.process, lines 52-80: the body of the try block.
CompressorTry(M, srcPtr, len, isLast, o) ==
  LET Stepped(r) ==
        IF r.res < 0 THEN Throw(Log(r.M, "getErrorName", -r.res, 0), "Codec")
        ELSE [r.M EXCEPT !.out = Take(r.M.H[r.M.e.buffer].pend, r.res)]
      Buffered(B) ==
        Stepped(CompressStep(B, B.e.ctx, B.e.buffer, B.e.bufferSize, srcPtr, len,
                             IF isLast THEN FlushEnd ELSE FlushContinue, o))
      Allocated(a) ==
        IF a.ptr = 0 THEN Throw([a.M EXCEPT !.e.buffer = a.ptr], "Allocation")
        ELSE Buffered([a.M EXCEPT !.e.buffer = a.ptr])
  IN IF M.e.buffer # 0 THEN Buffered(M)
     ELSE Allocated(Malloc([Log(M, "cStreamOutSize", 0, 0) EXCEPT
                              !.e.bufferSize = CStreamOutSize],
                           "buf", CStreamOutSize, o.fault = "bufAlloc"))

\* ZstdCompressor.process
CompressorProcess(M, data, isLast, o) ==
  IF ProcessRefusal(M.e) # "none" THEN Throw(M, ProcessRefusal(M.e))
  ELSE LET Copied(s) ==
             IF s.ptr = 0 THEN Throw(s.M, "Allocation")
             ELSE Free(CompressorTry(PutBytes(s.M, s.ptr, data), s.ptr, Len(data),
                                     isLast, o),
                       s.ptr, "src")
           Ready(A) ==
             IF A.err # "none" THEN A
             ELSE IF Len(data) = 0 /\ ~isLast THEN A
             ELSE Copied(Malloc(A, "src", Len(data), o.fault = "srcAlloc"))
       IN Ready(CompressorEnsureCtx(M, o))

\* ZstdDecompressor.process, lines 109-115: the context, created on first use.
DecompressorEnsureCtx(M, o) ==
  IF M.e.ctx # 0 THEN M
  ELSE LET Set(c) == [c.M EXCEPT !.e.ctx = c.ptr]
           Inited(i) == IF i.rc = 0 THEN Throw(DecompressorCleanup(i.M), "Initialization")
                        ELSE i.M
           Created(c) ==
             IF c.ptr = 0 THEN Throw(DecompressorCleanup(Set(c)), "Initialization")
             ELSE Inited(InitDStream(Set(c), c.ptr,
                                     CASE o.fault = "initFail" -> "zero"
                                       [] o.fault = "initErr" -> "error"
                                       [] OTHER -> "ok"))
       IN Created(CreateCtx(M, "dctx", o.fault = "ctxNull"))

\* Mutant of DecompressorEnsureBuffer: a scratch buffer is allocated by every call.
DecompressorEnsureBufferAlways(M, o) ==
  LET Allocated(a) ==
        IF a.ptr = 0 THEN Throw([a.M EXCEPT !.e.buffer = a.ptr], "Allocation")
        ELSE [a.M EXCEPT !.e.buffer = a.ptr]
  IN Allocated(Malloc([Log(M, "dStreamOutSize", 0, 0) EXCEPT
                         !.e.bufferSize = DStreamOutSize],
                      "buf", DStreamOutSize, o.fault = "bufAlloc"))

\* ZstdDecompressor.process, lines 119-123: the scratch buffer, allocated once.
DecompressorEnsureBuffer(M, o) ==
  IF M.e.buffer # 0 THEN M
  ELSE LET Allocated(a) ==
             IF a.ptr = 0 THEN Throw([a.M EXCEPT !.e.buffer = a.ptr], "Allocation")
             ELSE [a.M EXCEPT !.e.buffer = a.ptr]
       IN Allocated(Malloc([Log(M, "dStreamOutSize", 0, 0) EXCEPT
                              !.e.bufferSize = DStreamOutSize],
                           "buf", DStreamOutSize, o.fault = "bufAlloc"))

\* Mutant of ConsumedOf: the offset moves one byte too far.
ConsumedOfOver(result) == result \div Half + 1

\* Mutant of OutputSizeOf: the low half is read as a signed number.
OutputSizeOfSigned(result) ==
  IF (result % Half) >= (Half \div 2) THEN (result % Half) - Half ELSE result % Half

\* Decoding of the packed step result (lines 143, 149, 150), at the model's width.
ErrorCodeOf(result) == result % Pow2(2 * HalfBits - 1)
ConsumedOf(result) == result \div Half
OutputSizeOf(result) == result % Half

\* Mutant of Stalled: no step is taken for a stall.
StalledNever(consumed, outputSize) == FALSE

\* The stall test of line 152.
Stalled(consumed, outputSize) == consumed = 0 /\ outputSize = 0

\* Mutant of Concat: only the chunk collected last is returned.
ConcatLast(chunks) == IF Len(chunks) = 0 THEN <<>> ELSE chunks[Len(chunks)]

\* ZstdDecompressor.concat
Concat(chunks) ==
  IF Len(chunks) = 0 THEN <<>> ELSE IF Len(chunks) = 1 THEN chunks[1] ELSE Flatten(chunks)

\* ZstdDecompressor.process, lines 133-167: the decode loop, k counting steps.
RECURSIVE DecompressorLoop(_, _, _, _, _, _, _)
DecompressorLoop(M, srcPtr, len, srcPos, chunks, k, o) ==
  IF ~(srcPos < len) THEN [M EXCEPT !.out = Concat(chunks)]
  ELSE LET Decoded(M1, consumed, outputSize) ==
             IF Stalled(consumed, outputSize) THEN Throw(M1, "Stall")
             ELSE DecompressorLoop(
                    M1, srcPtr, len, srcPos + consumed,
                    IF outputSize > 0
                    THEN Append(chunks, Take(M1.H[M1.e.buffer].pend, outputSize))
                    ELSE chunks,
                    k + 1, o)
           Stepped(r) ==
             IF r.res < 0
             THEN Throw(Log(r.M, "getErrorName", ErrorCodeOf(r.res), 0), "Codec")
             ELSE Decoded(r.M, ConsumedOf(r.res), OutputSizeOf(r.res))
       IN Stepped(DecompressStep(M, M.e.ctx, M.e.buffer, M.e.bufferSize, srcPtr, srcPos,
                                 len - srcPos, o, k))

\* ZstdDecompressor.process
DecompressorProcess(M, data, o) ==
  IF ProcessRefusal(M.e) # "none" THEN Throw(M, ProcessRefusal(M.e))
  ELSE LET Copied(s) ==
             IF s.ptr = 0 THEN Throw(s.M, "Allocation")
             ELSE Free(DecompressorLoop(PutBytes(s.M, s.ptr, data), s.ptr, Len(data),
                                        0, <<>>, 1, o),
                       s.ptr, "src")
           Buffered(B) ==
             IF B.err # "none" THEN B
             ELSE Copied(Malloc(B, "src", Len(data), o.fault = "srcAlloc"))
           Ready(A) ==
             IF A.err # "none" THEN A
             ELSE IF Len(data) = 0 THEN A
             ELSE Buffered(DecompressorEnsureBuffer(A, o))
       IN Ready(DecompressorEnsureCtx(M, o))

\* process of either kind.
Process(M, data, isLast, o) ==
  IF M.e.kind = "C" THEN CompressorProcess(M, data, isLast, o)
  ELSE DecompressorProcess(M, data, o)


\* -------------------------------------------------------------------- state
VARIABLES
  module,       \* loader.ts: the codec module is loaded (module # null)
  initPromise,  \* loader.ts: "null", "pending" or "settled"
  initialized,  \* index.ts: the facade's flag
  loads,        \* what the loader was asked to do so far, and how it went
  heap,         \* foreign memory of the codec module
  eng,          \* the engine instances, by id
  last,         \* the last call made on an engine instance, and how it ended
  bad,          \* misuses of foreign handles seen so far
  hist,         \* what has happened so far: "ctxFreed", "bufFreed", ...
  call,         \* index.ts: the facade calls in progress, by id
  up,           \* the input stream of a call and its reader
  pipe,         \* index.ts: the closure of compressStream / decompressStream
  os,           \* the output stream returned by compressStream / decompressStream
  cons,         \* the consumer of the output stream
  job           \* the client's round trip: the original bytes and the stage

engineVars == <<heap, eng, last, bad, hist>>
loaderVars == <<module, initPromise, initialized, loads>>
streamVars == <<up, pipe, os, cons>>
opsVars == <<call, up, pipe, os, cons, job>>

Inst == 1..2

NoCall ==
  [op |-> "none", id |-> 0, pre |-> NoEngine, arg |-> 0, data |-> <<>>, isLast |-> FALSE,
   err |-> "none", out |-> <<>>, calls |-> <<>>]

Faults == {"none", "ctxNull", "initFail", "srcAlloc", "bufAlloc", "stepErr"}

NoFault == [fault |-> "none", at |-> 1, hold |-> FALSE, grain |-> 1, drop |-> FALSE]

\* A fault leaves nothing else to choose; a fault-free call chooses hold or grain.
COracles ==
  {[NoFault EXCEPT !.fault = f] : f \in Faults}
  \cup {[NoFault EXCEPT !.hold = TRUE], [NoFault EXCEPT !.drop = TRUE]}

DOracles ==
  {[NoFault EXCEPT !.fault = f] : f \in Faults \cup {"initErr"}}
  \cup {[NoFault EXCEPT !.grain = g] : g \in 1..MaxGrain}
  \cup {[NoFault EXCEPT !.fault = f, !.at = k] : f \in {"stepErr", "stall"}, k \in 1..MaxAt}

\* Wire bytes the instance's compression context holds back.
PendLen(e) == IF e.ctx \in Handles THEN Len(heap[e.ctx].pend) ELSE 0

\* A facade call: pc is where it is suspended, created whether its engine
\* instance has been constructed, perr the error process threw, err the error
\* the call rejected with, log the calls made on its engine instance.
NoFacadeCall ==
  [pc |-> "idle", api |-> "none", form |-> "none", input |-> <<>>, level |-> 0,
   created |-> FALSE, perr |-> "none", err |-> "none", result |-> <<>>,
   chunks |-> <<>>, totalWritten |-> 0, progress |-> <<>>, log |-> <<>>]

\* An input stream: the chunks it will still deliver, how it ends, its reader's
\* lock, and the read in flight (rs) with its result (rd) once settled.
NoRead == [kind |-> "none", value |-> <<>>, err |-> "none"]

NoUpstream ==
  [chunks |-> <<>>, end |-> "close", locked |-> FALSE, rs |-> "idle", rd |-> NoRead,
   nreads |-> 0]

\* The closure of a stream call: engine is `compressor !== null`, pc where
\* pull is ("idle", "await" on a read, "returned" with its promise not yet
\* reacted to), ret the error pull rejected with, startp the promise of
\* start(), caught the error the catch block handled and whether the consumer
\* had cancelled by then.
\* The ghosts of a pipeline: emitted are the chunks enqueued so far, mark is
\* their number when the current pull began.
NoPipe ==
  [kind |-> "none", engine |-> FALSE, inputDone |-> FALSE, totalWritten |-> 0,
   pc |-> "none", ret |-> "none", startp |-> "none", starterr |-> "none",
   progress |-> <<>>, caught |-> "none", lateCatch |-> FALSE, pulls |-> 0,
   emitted |-> <<>>, mark |-> 0]

NoStream ==
  [state |-> "none", started |-> FALSE, pulling |-> FALSE, pullAgain |-> FALSE,
   closeRequested |-> FALSE, queue |-> <<>>, storedError |-> "none", readReq |-> FALSE]

\* The consumer: the chunks it has read, how its reading ended, whether its
\* cancel ran the cancel handler, and the upstream reads started by then.
NoConsumer ==
  [got |-> <<>>, ended |-> "no", err |-> "none", handler |-> FALSE, readsAtCancel |-> 0]

\* The round trip of the client: the bytes it started from, the chunks it fed,
\* the stage it is in, and the compressed chunks it passed on.
\* The loader so far: the facade calls begun, the calls of initZstd, the loads
\* started, the loads that failed, whether a call began while another one was
\* in progress, and the load whose module object `module` refers to (0: none).
NoLoads ==
  [calls |-> 0, invoked |-> 0, started |-> 0, failed |-> 0, overlap |-> FALSE,
   loaded |-> 0]

NoJob == [orig |-> <<>>, chunks |-> <<>>, stage |-> 0, mid |-> <<>>]

\* ------------------------------------------------- calls on an engine instance
\* What a call that took the instance from e to f adds to the history.
HistOf(e, f) ==
  (IF e.ctx # 0 /\ f.ctx = 0 THEN {"ctxFreed"} ELSE {})
  \cup (IF e.buffer # 0 /\ f.buffer = 0 THEN {"bufFreed"} ELSE {})

\* A call of method op on instance i that ended as machine M.
Record(i, op, arg, data, isLast, R) ==
  \E M \in {R} :
    /\ eng' = [eng EXCEPT ![i] = M.e]
    /\ heap' = M.H
    /\ bad' = bad \cup M.bad
    /\ hist' = hist \cup HistOf(eng[i], M.e)
    /\ last' = [op |-> op, id |-> i, pre |-> eng[i], arg |-> arg, data |-> data,
                isLast |-> isLast, err |-> M.err, out |-> M.out, calls |-> M.calls]

\* new ZstdCompressor(level)
EngNewCompressor(i, level) ==
  /\ eng[i].kind = "none"
  /\ Record(i, "new", level, <<>>, FALSE,
            IF LevelRejected(level) THEN Throw(Machine(eng[i], heap), "Validation")
            ELSE Machine(NewCompressor(i, level), heap))
  /\ UNCHANGED <<loaderVars, opsVars>>

\* new ZstdDecompressor()
EngNewDecompressor(i) ==
  /\ eng[i].kind = "none"
  /\ Record(i, "new", 0, <<>>, FALSE, Machine(NewDecompressor(i), heap))
  /\ UNCHANGED <<loaderVars, opsVars>>

\* getModule(), as init() uses it: the module, or an error while there is none.
GetModule(M) ==
  IF module THEN [M EXCEPT !.e.module = TRUE] ELSE Throw(M, "ModuleNotInitialized")

\* init()
EngInit(i) ==
  /\ eng[i].kind # "none"
  /\ Record(i, "init", 0, <<>>, FALSE, GetModule(Machine(eng[i], heap)))
  /\ UNCHANGED <<loaderVars, opsVars>>

\* process(data, isLast)
EngProcess(i, data, isLast, o) ==
  /\ eng[i].kind # "none"
  /\ PendLen(eng[i]) + Len(data) + 2 <= MaxPend
  /\ Record(i, "process", 0, data, isLast, Process(Machine(eng[i], heap), data, isLast, o))
  /\ UNCHANGED <<loaderVars, opsVars>>

\* destroy()
EngDestroy(i) ==
  /\ eng[i].kind # "none"
  /\ Record(i, "destroy", 0, <<>>, FALSE, Destroy(Machine(eng[i], heap)))
  /\ UNCHANGED <<loaderVars, opsVars>>

\* ----------------------------------------- an engine instance driven directly
vars == <<module, initPromise, initialized, loads, heap, eng, last, bad, hist, call, up,
          pipe, os, cons, job>>

InitEngine ==
  /\ module \in BOOLEAN
  /\ initPromise = "null"
  /\ initialized = FALSE
  /\ loads = NoLoads
  /\ heap = EmptyHeap
  /\ eng = [i \in Inst |-> NoEngine]
  /\ last = NoCall
  /\ bad = {}
  /\ hist = {}
  /\ call = [c \in Inst |-> NoFacadeCall]
  /\ up = NoUpstream
  /\ pipe = NoPipe
  /\ os = NoStream
  /\ cons = NoConsumer
  /\ job = NoJob

NextEngine ==
  \/ \E level \in EdgeLevels : EngNewCompressor(1, level)
  \/ EngNewDecompressor(1)
  \/ EngInit(1)
  \/ \E data \in SeqsUpTo(Bytes, MaxData), isLast \in BOOLEAN, o \in COracles :
       eng[1].kind = "C" /\ EngProcess(1, data, isLast, o)
  \/ \E data \in SeqsUpTo(Wire, MaxData), o \in DOracles :
       eng[1].kind = "D" /\ EngProcess(1, data, FALSE, o)
  \/ EngDestroy(1)

SpecEngine == InitEngine /\ [][NextEngine]_vars


\* ------------------------------------------------- the world of one operation
\* Mutant of World: every call works on the engine instance of the first.
WorldShared(c) ==
  [e |-> eng[1], H |-> heap, bad |-> bad, hist |-> hist, last |-> last, up |-> up,
   pipe |-> pipe, os |-> os, cons |-> cons, call |-> call[c], thrown |-> "none",
   out |-> <<>>]

\* An operation of call c works on a world W: its engine instance e, the heap,
\* the streams and its own record; thrown/out are how the last step ended.
World(c) ==
  [e |-> eng[c], H |-> heap, bad |-> bad, hist |-> hist, last |-> last, up |-> up,
   pipe |-> pipe, os |-> os, cons |-> cons, call |-> call[c], thrown |-> "none",
   out |-> <<>>]

Commit(c, W) ==
  /\ eng' = [eng EXCEPT ![c] = W.e]
  /\ heap' = W.H
  /\ bad' = W.bad
  /\ hist' = W.hist
  /\ last' = W.last
  /\ up' = W.up
  /\ pipe' = W.pipe
  /\ os' = W.os
  /\ cons' = W.cons
  /\ call' = [call EXCEPT ![c] = W.call]

\* A call of method op on the world's instance that ended as machine M.
WCall(W, op, arg, data, isLast, M) ==
  [W EXCEPT !.e = M.e, !.H = M.H, !.bad = @ \cup M.bad,
            !.hist = @ \cup HistOf(W.e, M.e),
            !.last = [op |-> op, id |-> M.e.id, pre |-> W.e, arg |-> arg,
                      data |-> data, isLast |-> isLast, err |-> M.err, out |-> M.out,
                      calls |-> M.calls],
            !.thrown = M.err, !.out = M.out,
            !.call.log = Append(@, [op |-> op, isLast |-> isLast, n |-> Len(data),
                                    err |-> M.err, out |-> M.out])]

\* new ZstdCompressor(level) / new ZstdDecompressor()
WNew(W, c, kind, level) ==
  IF kind = "C" /\ LevelRejected(level)
  THEN WCall(W, "new", level, <<>>, FALSE, Throw(Machine(W.e, W.H), "Validation"))
  ELSE WCall(W, "new", level, <<>>, FALSE,
             Machine(IF kind = "C" THEN NewCompressor(c, level) ELSE NewDecompressor(c),
                     W.H))

\* await instance.init()
WInit(W) == WCall(W, "init", 0, <<>>, FALSE, GetModule(Machine(W.e, W.H)))

\* instance.process(data, isLast)
WProcess(W, data, isLast, o) ==
  WCall(W, "process", 0, data, isLast, Process(Machine(W.e, W.H), data, isLast, o))

\* instance.destroy()
WDestroy(W) == WCall(W, "destroy", 0, <<>>, FALSE, Destroy(Machine(W.e, W.H)))

\* ------------------------------------------------------------ input streams
\* reader.read(): a read on a released reader is rejected at once.
ReaderRead(W) ==
  IF ~W.up.locked
  THEN [W EXCEPT !.up.rs = "settled",
                 !.up.rd = [NoRead EXCEPT !.kind = "error", !.err = "Released"]]
  ELSE [W EXCEPT !.up.rs = "reading", !.up.nreads = @ + 1]

\* reader.releaseLock(): a read in flight is rejected; no effect when released.
ReleaseLock(W) ==
  IF ~W.up.locked THEN W
  ELSE IF W.up.rs = "reading"
       THEN [W EXCEPT !.up.locked = FALSE, !.up.rs = "settled",
                      !.up.rd = [NoRead EXCEPT !.kind = "error", !.err = "Released"]]
       ELSE [W EXCEPT !.up.locked = FALSE]

\* The read result the continuation receives, and the world once it is taken.
TakeRead(W) == [W EXCEPT !.up.rs = "idle", !.up.rd = NoRead]

\* ------------------------------------------------------------ output stream
\* The default controller of the stream that compressStream / decompressStream
\* return; it is constructed with the default strategy (high water mark 1).
HighWaterMark == 1

CanCloseOrEnqueue(W) == ~W.os.closeRequested /\ W.os.state = "readable"

\* Mutant of ShouldCallPull: pull is called whether or not output is wanted.
ShouldCallPullEager(W) == CanCloseOrEnqueue(W) /\ W.os.started

\* Mutant of ShouldCallPull: the state of the stream is not looked at.
ShouldCallPullEnded(W) ==
  W.os.started /\ (W.os.readReq \/ HighWaterMark - Len(W.os.queue) > 0)

\* Mutant of ShouldCallPull: the queue may run one chunk further ahead.
ShouldCallPullDeep(W) ==
  /\ CanCloseOrEnqueue(W)
  /\ W.os.started
  /\ (W.os.readReq \/ HighWaterMark + 1 - Len(W.os.queue) > 0)

ShouldCallPull(W) ==
  /\ CanCloseOrEnqueue(W)
  /\ W.os.started
  /\ (W.os.readReq \/ HighWaterMark - Len(W.os.queue) > 0)

\* pull(controller) up to its first suspension: index.ts 61-67 and 149-153.
PullEnter(W) ==
  IF W.pipe.inputDone
  THEN [W EXCEPT !.pipe.pc = "returned", !.pipe.ret = "none", !.pipe.pulls = @ + 1,
                 !.pipe.mark = Len(W.pipe.emitted)]
  ELSE [ReaderRead(W) EXCEPT !.pipe.pc = "await", !.pipe.pulls = @ + 1,
                             !.pipe.mark = Len(W.pipe.emitted)]

CallPullIfNeeded(W) ==
  IF ~ShouldCallPull(W) THEN W
  ELSE IF W.os.pulling THEN [W EXCEPT !.os.pullAgain = TRUE]
  ELSE PullEnter([W EXCEPT !.os.pulling = TRUE])

\* The stream closes: a pending read ends with done.
StreamClose(W) ==
  [W EXCEPT !.os.state = "closed", !.os.readReq = FALSE,
            !.cons.ended = IF W.os.readReq THEN "done" ELSE @]

\* Mutant of ControllerEnqueue: a chunk handed to a waiting read is put in
\* front of the chunks read before.
ControllerEnqueueFront(W, chunk) ==
  IF ~CanCloseOrEnqueue(W) THEN [W EXCEPT !.thrown = "TypeError"]
  ELSE CallPullIfNeeded(
         IF W.os.readReq
         THEN [W EXCEPT !.os.readReq = FALSE, !.cons.got = <<chunk>> \o @]
         ELSE [W EXCEPT !.os.queue = Append(@, chunk)])

\* controller.enqueue(chunk)
ControllerEnqueue(W, chunk) ==
  IF ~CanCloseOrEnqueue(W) THEN [W EXCEPT !.thrown = "TypeError"]
  ELSE CallPullIfNeeded(
         IF W.os.readReq
         THEN [W EXCEPT !.os.readReq = FALSE, !.cons.got = Append(@, chunk)]
         ELSE [W EXCEPT !.os.queue = Append(@, chunk)])

\* controller.close()
ControllerClose(W) ==
  IF ~CanCloseOrEnqueue(W) THEN [W EXCEPT !.thrown = "TypeError"]
  ELSE IF W.os.queue = <<>> THEN StreamClose([W EXCEPT !.os.closeRequested = TRUE])
  ELSE [W EXCEPT !.os.closeRequested = TRUE]

\* controller.error(err): no effect unless the stream is readable.
ControllerError(W, err) ==
  IF W.os.state # "readable" THEN W
  ELSE [W EXCEPT !.os.state = "errored", !.os.storedError = err, !.os.queue = <<>>,
                 !.os.readReq = FALSE,
                 !.cons.ended = IF W.os.readReq THEN "error" ELSE @,
                 !.cons.err = IF W.os.readReq THEN err ELSE @]

\* ------------------------------------------------------------ the pipeline
\* Mutant of PipeDestroy: the pipeline never destroys its engine.
PipeDestroyNever(W) == W

\* compressor?.destroy() / decompressor?.destroy()
PipeDestroy(W) == IF W.pipe.engine THEN WDestroy(W) ELSE W

\* compressor!.process(...) / decompressor!.process(...)
PipeProcess(W, data, isLast, o) ==
  IF W.pipe.engine THEN WProcess(W, data, isLast, o) ELSE [W EXCEPT !.thrown = "TypeError"]

\* pull returns (its promise is fulfilled, or rejected with ret).
PullReturn(W, ret) == [W EXCEPT !.pipe.pc = "returned", !.pipe.ret = ret, !.thrown = "none"]

\* Mutant of PullCatch: the catch block leaves the upstream lock alone.
PullCatchKeepLock(W, err) ==
  LET A == [W EXCEPT !.pipe.inputDone = TRUE, !.pipe.caught = err,
                     !.pipe.lateCatch = (W.cons.ended = "cancelled")]
      C == PipeDestroy(A)
      D == ControllerError(C, err)
  IN PullReturn(D, IF W.pipe.kind = "D" THEN err ELSE "none")

\* The catch block of pull: index.ts 94-99 and 170-176 (which rethrows).
PullCatch(W, err) ==
  LET A == [W EXCEPT !.pipe.inputDone = TRUE, !.pipe.caught = err,
                     !.pipe.lateCatch = (W.cons.ended = "cancelled")]
      B == ReleaseLock(A)
      C == PipeDestroy(B)
      D == ControllerError(C, err)
  IN PullReturn(D, IF W.pipe.kind = "D" THEN err ELSE "none")

\* Mutant of Emit: the chunk is enqueued twice.
EmitTwice(W, chunk) ==
  LET Enqueued(A) ==
        IF A.thrown # "none" THEN A
        ELSE [A EXCEPT !.pipe.totalWritten = @ + 2 * Len(chunk),
                       !.pipe.progress = Append(@, W.pipe.totalWritten + 2 * Len(chunk)),
                       !.pipe.emitted = @ \o <<chunk, chunk>>]
  IN Enqueued(ControllerEnqueue(ControllerEnqueue(W, chunk), chunk))

\* Mutant of Emit: progress reports the length of the chunk, not the total.
EmitChunkProgress(W, chunk) ==
  LET Enqueued(A) ==
        IF A.thrown # "none" THEN A
        ELSE [A EXCEPT !.pipe.totalWritten = @ + Len(chunk),
                       !.pipe.progress = Append(@, Len(chunk)),
                       !.pipe.emitted = Append(@, chunk)]
  IN Enqueued(ControllerEnqueue(W, chunk))

\* enqueue the chunk, add to totalWritten, report progress.
Emit(W, chunk) ==
  LET Enqueued(A) ==
        IF A.thrown # "none" THEN A
        ELSE [A EXCEPT !.pipe.totalWritten = @ + Len(chunk),
                       !.pipe.progress = Append(@, W.pipe.totalWritten + Len(chunk)),
                       !.pipe.emitted = Append(@, chunk)]
  IN Enqueued(ControllerEnqueue(W, chunk))

\* Mutant of HasOutput: every chunk is emitted, empty or not.
HasOutputAlways(chunk) == TRUE

\* `chunk.length > 0`: index.ts 72, 86 and 165.
HasOutput(chunk) == Len(chunk) > 0

\* Mutant of DecompressPullStep: the end of the input is passed to process as
\* a last, empty chunk before the stream is closed.
DecompressPullStepFlush(W, o) ==
  LET Closed(C) ==
        IF C.thrown # "none" THEN PullCatch(C, C.thrown)
        ELSE PullReturn(PipeDestroy(ReleaseLock(C)), "none")
      Emitted(B) ==
        IF B.thrown # "none" THEN PullCatch(B, B.thrown) ELSE PullReturn(B, "none")
      Processed(A) ==
        IF A.thrown # "none" THEN PullCatch(A, A.thrown)
        ELSE IF Len(A.out) > 0 THEN Emitted(Emit(A, A.out))
        ELSE PullReturn(A, "none")
      Flushed(A) ==
        IF A.thrown # "none" THEN PullCatch(A, A.thrown)
        ELSE Closed(ControllerClose([A EXCEPT !.pipe.inputDone = TRUE]))
      Got(rd, W0) ==
        IF rd.kind = "error" THEN PullCatch(W0, rd.err)
        ELSE IF rd.kind = "done" THEN Flushed(PipeProcess(W0, <<>>, TRUE, o))
        ELSE Processed(PipeProcess(W0, rd.value, FALSE, o))
  IN Got(W.up.rd, TakeRead(W))

\* decompressStream's pull once its read has settled: index.ts 153-169.
DecompressPullStep(W, o) ==
  LET Closed(C) ==
        IF C.thrown # "none" THEN PullCatch(C, C.thrown)
        ELSE PullReturn(PipeDestroy(ReleaseLock(C)), "none")
      Emitted(B) ==
        IF B.thrown # "none" THEN PullCatch(B, B.thrown) ELSE PullReturn(B, "none")
      Processed(A) ==
        IF A.thrown # "none" THEN PullCatch(A, A.thrown)
        ELSE IF HasOutput(A.out) THEN Emitted(Emit(A, A.out))
        ELSE PullReturn(A, "none")
      Got(rd, W0) ==
        IF rd.kind = "error" THEN PullCatch(W0, rd.err)
        ELSE IF rd.kind = "done"
        THEN Closed(ControllerClose([W0 EXCEPT !.pipe.inputDone = TRUE]))
        ELSE Processed(PipeProcess(W0, rd.value, FALSE, o))
  IN Got(W.up.rd, TakeRead(W))

\* Mutant of CompressPullStep: at the end of the input the stream is closed
\* without a final flush, as decompressStream does.
CompressPullStepNoFlush(W, o) == DecompressPullStep(W, o)

\* compressStream's pull once its read has settled: index.ts 67-93.
CompressPullStep(W, o) ==
  LET Closed(C) ==
        IF C.thrown # "none" THEN PullCatch(C, C.thrown)
        ELSE PullReturn([PipeDestroy(ReleaseLock(C)) EXCEPT !.pipe.inputDone = TRUE],
                        "none")
      Flushed(B) ==
        IF B.thrown # "none" THEN PullCatch(B, B.thrown) ELSE Closed(ControllerClose(B))
      Last(A) ==
        IF A.thrown # "none" THEN PullCatch(A, A.thrown)
        ELSE Flushed(IF HasOutput(A.out) THEN Emit(A, A.out) ELSE A)
      Emitted(B) ==
        IF B.thrown # "none" THEN PullCatch(B, B.thrown) ELSE PullReturn(B, "none")
      Processed(A) ==
        IF A.thrown # "none" THEN PullCatch(A, A.thrown)
        ELSE IF HasOutput(A.out) THEN Emitted(Emit(A, A.out))
        ELSE [ReaderRead(A) EXCEPT !.pipe.pc = "await"]
      Got(rd, W0) ==
        IF rd.kind = "error" THEN PullCatch(W0, rd.err)
        ELSE IF rd.kind = "done" THEN Last(PipeProcess(W0, <<>>, TRUE, o))
        ELSE Processed(PipeProcess(W0, rd.value, FALSE, o))
  IN Got(W.up.rd, TakeRead(W))

\* The reaction to the promise start() returned.
StartSettled(W) ==
  IF W.pipe.startp = "failed"
  THEN ControllerError([W EXCEPT !.pipe.startp = "done"], W.pipe.starterr)
  ELSE CallPullIfNeeded([W EXCEPT !.pipe.startp = "done", !.os.started = TRUE])

\* The reaction to the promise pull returned.
PullSettled(W) ==
  LET A == [W EXCEPT !.os.pulling = FALSE, !.pipe.pc = "idle", !.pipe.ret = "none"] IN
  IF W.pipe.ret # "none" THEN ControllerError(A, W.pipe.ret)
  ELSE IF W.os.pullAgain THEN CallPullIfNeeded([A EXCEPT !.os.pullAgain = FALSE])
  ELSE A

\* Mutant of CancelHandler: the handler leaves the upstream lock alone.
CancelHandlerKeepLock(W) == PipeDestroy(W)

\* The cancel handler: index.ts 102-105 and 179-182.
CancelHandler(W) == PipeDestroy(ReleaseLock(W))

\* reader.read() of the consumer on the output stream.
OutputRead(W) ==
  IF W.os.state = "closed" THEN [W EXCEPT !.cons.ended = "done"]
  ELSE IF W.os.state = "errored"
  THEN [W EXCEPT !.cons.ended = "error", !.cons.err = W.os.storedError]
  ELSE IF W.os.queue # <<>>
  THEN LET A == [W EXCEPT !.os.queue = Tail(@), !.cons.got = Append(@, Head(W.os.queue))]
       IN IF A.os.closeRequested /\ A.os.queue = <<>> THEN StreamClose(A)
          ELSE CallPullIfNeeded(A)
  ELSE CallPullIfNeeded([W EXCEPT !.os.readReq = TRUE])

\* reader.cancel() of the consumer: a readable stream closes, drops its queue
\* and runs the cancel handler.
OutputCancel(W) ==
  IF W.os.state # "readable" THEN [W EXCEPT !.cons.ended = "cancelled"]
  ELSE LET Handled(B) == [B EXCEPT !.cons.readsAtCancel = B.up.nreads]
       IN Handled(CancelHandler([StreamClose(W) EXCEPT !.os.queue = <<>>,
                                                       !.cons.ended = "cancelled",
                                                       !.cons.handler = TRUE]))

\* ------------------------------------------------------------ the loader
\* Mutant of InitZstdCalled: ensureInit calls initZstd every time.
InitZstdCalledAlways == TRUE

\* `if (!initialized)`: index.ts 16.
InitZstdCalled == ~initialized

\* Mutant of LoadStarted: a load starts although the module is there.
LoadStartedAgain == initPromise # "pending"

\* Mutant of LoadStarted: a load in flight is not shared.
LoadStartedUnshared == ~module

\* initZstd gets past its two early returns and starts a load: loader.ts 97-99.
LoadStarted == initPromise = "null" /\ ~module

\* `await ensureInit()` of call c that passes api, form, input and level:
\* index.ts 15-20 and initZstd, loader.ts 96-115, up to the first suspension.
EnsureInit(c, api, form, input, level) ==
  /\ call[c].pc = "idle"
  /\ call' = [call EXCEPT ![c] =
                [NoFacadeCall EXCEPT
                   !.api = api, !.form = form, !.input = input, !.level = level,
                   !.pc = IF ~InitZstdCalled THEN "afterInit"
                          ELSE IF LoadStarted \/ initPromise = "pending" THEN "awaitInit"
                          ELSE "initOk"]]
  /\ initPromise' = IF InitZstdCalled /\ LoadStarted THEN "pending" ELSE initPromise
  /\ loads' = [loads EXCEPT
                 !.calls = @ + 1,
                 !.invoked = IF InitZstdCalled THEN @ + 1 ELSE @,
                 !.started = IF InitZstdCalled /\ LoadStarted THEN @ + 1 ELSE @,
                 !.overlap = @ \/ \E d \in Inst \ {c} : call[d].pc \notin {"idle", "done"}]
  /\ UNCHANGED <<module, initialized>>

\* Mutant of LoadSettle: the promise of a failed load is kept.
LoadSettleSticky(ok) ==
  /\ initPromise = "pending"
  /\ module' = ok
  /\ initPromise' = "settled"
  /\ loads' = [loads EXCEPT !.failed = IF ok THEN @ ELSE @ + 1,
                            !.loaded = IF ok THEN loads.started ELSE 0]
  /\ call' = [c \in Inst |->
                IF call[c].pc = "awaitInit"
                THEN [call[c] EXCEPT !.pc = IF ok THEN "initOk" ELSE "initFail"]
                ELSE call[c]]
  /\ UNCHANGED <<initialized, engineVars, streamVars, job>>

\* The load started by initZstd ends: loader.ts 99-113. On failure the
\* promise is forgotten and every call awaiting it is rejected.
LoadSettle(ok) ==
  /\ initPromise = "pending"
  /\ module' = ok
  /\ initPromise' = IF ok THEN "settled" ELSE "null"
  /\ loads' = [loads EXCEPT !.failed = IF ok THEN @ ELSE @ + 1,
                            !.loaded = IF ok THEN loads.started ELSE 0]
  /\ call' = [c \in Inst |->
                IF call[c].pc = "awaitInit"
                THEN [call[c] EXCEPT !.pc = IF ok THEN "initOk" ELSE "initFail"]
                ELSE call[c]]
  /\ UNCHANGED <<initialized, engineVars, streamVars, job>>

\* initZstd() called on its own, up to its first suspension: loader.ts 96-115.
InitZstd ==
  /\ loads.invoked < MaxCalls
  /\ initPromise' = IF LoadStarted THEN "pending" ELSE initPromise
  /\ loads' = [loads EXCEPT !.invoked = @ + 1,
                            !.started = IF LoadStarted THEN @ + 1 ELSE @]
  /\ UNCHANGED <<module, initialized, engineVars, opsVars>>

\* ensureInit rejected: the call rejects with the loader's error.
FacadeInitFailed(c) ==
  /\ call[c].pc = "initFail"
  /\ call' = [call EXCEPT ![c].pc = "done", ![c].err = "InitFailed"]
  /\ UNCHANGED <<loaderVars, engineVars, streamVars, job>>

\* ------------------------------------------------------------ the facade
\* initialize() after ensureInit: index.ts 186-188.
FacadeInitialized(c) ==
  /\ call[c].pc \in {"initOk", "afterInit"}
  /\ call[c].api = "initialize"
  /\ initialized' = TRUE
  /\ call' = [call EXCEPT ![c].pc = "done"]
  /\ UNCHANGED <<module, initPromise, loads, engineVars, streamVars, job>>

KindOf(api) == IF api \in {"compress", "compressStream"} THEN "C" ELSE "D"

\* compress / decompress after ensureInit: the instance is constructed and
\* initialised, index.ts 28-30 and 115-117.
FacadeConstruct(c) ==
  /\ call[c].pc \in {"initOk", "afterInit"}
  /\ call[c].api \in {"compress", "decompress"}
  /\ initialized' = TRUE
  /\ LET Inited(B) ==
           IF B.thrown # "none"
           THEN [B EXCEPT !.call.pc = "done", !.call.err = B.thrown, !.call.created = TRUE]
           ELSE [B EXCEPT !.call.pc = "inited", !.call.created = TRUE]
         Constructed(A) ==
           IF A.thrown # "none"
           THEN [A EXCEPT !.call.pc = "done", !.call.err = A.thrown]
           ELSE Inited(WInit(A))
     IN Commit(c, Constructed(WNew(World(c), c, KindOf(call[c].api), call[c].level)))
  /\ UNCHANGED <<module, initPromise, loads, job>>

\* compress / decompress of a buffer: the try/finally of index.ts 32-38 and
\* 119-125.
FacadeRunBuffer(c, o) ==
  /\ call[c].pc = "inited"
  /\ call[c].form = "buffer"
  /\ LET Processed(A) ==
           [WDestroy(A) EXCEPT !.call.pc = "done", !.call.perr = A.thrown,
                               !.call.err = A.thrown, !.call.result = A.out,
                               !.call.progress = IF A.thrown = "none" THEN <<Len(A.out)>>
                                                 ELSE <<>>]
     IN Commit(c, Processed(WProcess(World(c), call[c].input, TRUE, o)))
  /\ UNCHANGED <<loaderVars, job>>

\* compress / decompress of a stream: input.getReader() and the first read.
FacadeOpenStream(c) ==
  /\ call[c].pc = "inited"
  /\ call[c].form = "stream"
  /\ LET A == ReaderRead([World(c) EXCEPT !.up.locked = TRUE])
     IN Commit(c, [A EXCEPT !.call.pc = "awaitRead"])
  /\ UNCHANGED <<loaderVars, job>>

\* Mutant of FacadeFinish: the outer finally block is missing.
FacadeFinishNoDestroy(W, err) ==
  [ReleaseLock(W) EXCEPT
     !.call.pc = "done", !.call.err = err,
     !.call.result = IF err = "none" THEN Concat(W.call.chunks) ELSE <<>>]

\* The two finally blocks: releaseLock(), then destroy(); the call returns the
\* concatenated chunks or rejects with err.
FacadeFinish(W, err) ==
  [WDestroy(ReleaseLock(W)) EXCEPT
     !.call.pc = "done", !.call.err = err,
     !.call.result = IF err = "none" THEN Concat(W.call.chunks) ELSE <<>>]

\* A non-empty chunk is kept and reported.
FacadeKeep(W, chunk) ==
  IF Len(chunk) = 0 THEN W
  ELSE [W EXCEPT !.call.chunks = Append(@, chunk),
                 !.call.totalWritten = @ + Len(chunk),
                 !.call.progress = Append(@, W.call.totalWritten + Len(chunk))]

\* One turn of the read loop of compress / decompress of a stream, once the
\* read has settled.
FacadeStreamStep(c, o) ==
  /\ call[c].pc = "awaitRead"
  /\ up.rs = "settled"
  /\ LET Processed(rd, A) ==
           IF A.thrown # "none"
           THEN FacadeFinish([A EXCEPT !.call.perr = A.thrown], A.thrown)
           ELSE IF rd.kind = "done" THEN FacadeFinish(FacadeKeep(A, A.out), "none")
           ELSE ReaderRead(FacadeKeep(A, A.out))
         Got(rd, W0) ==
           IF rd.kind = "error" THEN FacadeFinish(W0, rd.err)
           ELSE IF call[c].api = "decompress" /\ rd.kind = "done"
           THEN FacadeFinish(W0, "none")
           ELSE Processed(rd, WProcess(W0, rd.value, rd.kind = "done", o))
     IN Commit(c, Got(up.rd, TakeRead(World(c))))
  /\ UNCHANGED <<loaderVars, job>>

\* compressStream / decompressStream after ensureInit: index.ts 46-57 and
\* 134-145; start() runs during construction, up to its await.
StreamCreate(c) ==
  /\ call[c].pc \in {"initOk", "afterInit"}
  /\ call[c].api \in {"compressStream", "decompressStream"}
  /\ initialized' = TRUE
  /\ LET Started(B, constructed) ==
           [B EXCEPT
              !.pipe = [NoPipe EXCEPT !.kind = KindOf(call[c].api),
                                      !.engine = constructed,
                                      !.pc = "idle",
                                      !.startp = IF B.thrown = "none" THEN "pending"
                                                 ELSE "failed",
                                      !.starterr = B.thrown],
              !.os = [NoStream EXCEPT !.state = "readable"],
              !.cons = NoConsumer,
              !.thrown = "none",
              !.call.pc = "done", !.call.created = constructed]
         Constructed(A) ==
           IF A.thrown # "none" THEN Started(A, FALSE) ELSE Started(WInit(A), TRUE)
     IN Commit(c, Constructed(WNew([World(c) EXCEPT !.up.locked = TRUE], c,
                                   KindOf(call[c].api), call[c].level)))
  /\ UNCHANGED <<module, initPromise, loads, job>>

\* ------------------------------------------------- the steps of a pipeline
StartSettle(c) ==
  /\ pipe.startp \in {"pending", "failed"}
  /\ Commit(c, StartSettled(World(c)))
  /\ UNCHANGED <<loaderVars, job>>

PullResume(c, o) ==
  /\ pipe.pc = "await"
  /\ up.rs = "settled"
  /\ Commit(c, IF pipe.kind = "C" THEN CompressPullStep(World(c), o)
               ELSE DecompressPullStep(World(c), o))
  /\ UNCHANGED <<loaderVars, job>>

PullSettle(c) ==
  /\ pipe.pc = "returned"
  /\ Commit(c, PullSettled(World(c)))
  /\ UNCHANGED <<loaderVars, job>>

ConsumerRead(c) ==
  /\ os.state # "none"
  /\ cons.ended = "no"
  /\ ~os.readReq
  /\ Commit(c, OutputRead(World(c)))
  /\ UNCHANGED <<loaderVars, job>>

ConsumerCancel(c) ==
  /\ os.state # "none"
  /\ cons.ended = "no"
  /\ Commit(c, OutputCancel(World(c)))
  /\ UNCHANGED <<loaderVars, job>>

\* The input stream settles the read in flight: its next chunk, or its end.
UpstreamSettle ==
  /\ up.rs = "reading"
  /\ up' = IF up.chunks # <<>>
           THEN [up EXCEPT !.rs = "settled", !.chunks = Tail(@),
                           !.rd = [NoRead EXCEPT !.kind = "chunk", !.value = Head(up.chunks)]]
           ELSE IF up.end = "close"
           THEN [up EXCEPT !.rs = "settled", !.rd = [NoRead EXCEPT !.kind = "done"]]
           ELSE [up EXCEPT !.rs = "settled",
                           !.rd = [NoRead EXCEPT !.kind = "error", !.err = "Upstream"]]
  /\ UNCHANGED <<loaderVars, engineVars, call, pipe, os, cons, job>>

\* ------------------------------------------------------------ the client
\* The client compresses orig and then decompresses what it got: by the buffer
\* calls, by the calls that take a stream, or by the stream pipelines, the
\* input stream delivering orig split into chunks.
\* The codec never looks at the value of a byte: the streams carry one input
\* of each length, in which neighbouring bytes differ.
Pattern == [i \in 1..MaxLen |-> (i - 1) % (MaxByte + 1)]

Origs == {Take(Pattern, n) : n \in 0..MaxLen}

Splits(b) == {cs \in SeqsUpTo(SeqsUpTo(Bytes, Len(b)), MaxChunks) : Flatten(cs) = b}

OpLevels == {MinLevel - 1, DefaultLevel, MaxLevel + 1}

Ends == {"close", "error"}

OraclesFor(c) == IF KindOf(call[c].api) = "C" THEN COracles ELSE DOracles

ClientStart(api, form, orig, chunks, level, end) ==
  /\ job.stage = 0
  /\ job' = [job EXCEPT !.orig = orig, !.stage = 1, !.chunks = chunks]
  /\ up' = IF form = "buffer" THEN NoUpstream
           ELSE [NoUpstream EXCEPT !.chunks = chunks, !.end = end]
  /\ EnsureInit(1, api, form, IF form = "buffer" THEN orig ELSE <<>>, level)
  /\ UNCHANGED <<engineVars, pipe, os, cons>>

\* The first stage has delivered all its output without an error.
Delivered(c) ==
  \/ call[c].api \in {"compress", "decompress"} /\ call[c].pc = "done"
       /\ call[c].err = "none"
  \/ call[c].api \in {"compressStream", "decompressStream"} /\ call[c].pc = "done"
       /\ cons.ended = "done"

\* What call c delivered, as chunks.
Output(c) ==
  IF call[c].api \in {"compress", "decompress"} THEN <<call[c].result>> ELSE cons.got

\* The client passes on what the first stage delivered; with pad, its stream
\* starts with a chunk of no bytes.
ClientNext(api, form, end, pad) ==
  /\ job.stage = 1
  /\ Delivered(1)
  /\ job' = [job EXCEPT !.stage = 2, !.mid = Output(1)]
  /\ up' = IF form = "buffer" THEN NoUpstream
           ELSE [NoUpstream EXCEPT
                   !.chunks = IF pad THEN <<<<>>>> \o Output(1) ELSE Output(1),
                   !.end = end]
  /\ pipe' = NoPipe
  /\ os' = NoStream
  /\ cons' = NoConsumer
  /\ EnsureInit(2, api, form, IF form = "buffer" THEN Flatten(Output(1)) ELSE <<>>, 0)
  /\ UNCHANGED engineVars

InitOps ==
  /\ module = FALSE
  /\ initPromise = "null"
  /\ initialized = FALSE
  /\ loads = NoLoads
  /\ heap = EmptyHeap
  /\ eng = [i \in Inst |-> NoEngine]
  /\ last = NoCall
  /\ bad = {}
  /\ hist = {}
  /\ call = [c \in Inst |-> NoFacadeCall]
  /\ up = NoUpstream
  /\ pipe = NoPipe
  /\ os = NoStream
  /\ cons = NoConsumer
  /\ job = NoJob

OperationStep(c) ==
  \/ FacadeInitFailed(c)
  \/ FacadeConstruct(c)
  \/ \E o \in OraclesFor(c) : FacadeRunBuffer(c, o)
  \/ FacadeOpenStream(c)
  \/ \E o \in OraclesFor(c) : FacadeStreamStep(c, o)
  \/ StreamCreate(c)
  \/ StartSettle(c)
  \/ \E o \in OraclesFor(c) : PullResume(c, o)
  \/ PullSettle(c)
  \/ ConsumerRead(c)
  \/ ConsumerCancel(c)

NextOps ==
  \/ \E orig \in SeqsUpTo(Bytes, MaxLen), level \in OpLevels :
       ClientStart("compress", "buffer", orig, <<>>, level, "close")
  \/ \E orig \in Origs, level \in OpLevels, end \in Ends,
        api \in {"compress", "compressStream"} :
       \E chunks \in Splits(orig) : ClientStart(api, "stream", orig, chunks, level, end)
  \/ ClientNext("decompress", "buffer", "close", FALSE)
  \/ \E api \in {"decompress", "decompressStream"}, end \in Ends, pad \in BOOLEAN :
       ClientNext(api, "stream", end, pad)
  \/ \E ok \in BOOLEAN : LoadSettle(ok)
  \/ UpstreamSettle
  \/ \E c \in Inst : c = job.stage /\ OperationStep(c)

SpecOps == InitOps /\ [][NextOps]_vars

\* ------------------------------------------ the pipelines, read to their end
\* The client runs compressStream and then decompressStream on what it got;
\* the consumer reads, one read at a time, and never cancels.
LiveStep(c) ==
  \/ FacadeInitFailed(c)
  \/ StreamCreate(c)
  \/ StartSettle(c)
  \/ \E o \in OraclesFor(c) : PullResume(c, o)
  \/ PullSettle(c)
  \/ ConsumerRead(c)

NextLive ==
  \/ \E orig \in Origs, level \in OpLevels, end \in Ends :
       \E chunks \in Splits(orig) :
         ClientStart("compressStream", "stream", orig, chunks, level, end)
  \/ \E end \in Ends, pad \in BOOLEAN : ClientNext("decompressStream", "stream", end, pad)
  \/ \E ok \in BOOLEAN : LoadSettle(ok)
  \/ UpstreamSettle
  \/ \E c \in Inst : c = job.stage /\ LiveStep(c)

\* A step of NextLive can be taken: the guards of its actions.
Due ==
  \/ job.stage = 0
  \/ job.stage = 1 /\ Delivered(1)
  \/ initPromise = "pending"
  \/ up.rs = "reading"
  \/ \E c \in Inst :
       /\ c = job.stage
       /\ \/ call[c].pc = "initFail"
          \/ call[c].pc \in {"initOk", "afterInit"}
          \/ pipe.startp \in {"pending", "failed"}
          \/ pipe.pc = "await" /\ up.rs = "settled"
          \/ pipe.pc = "returned"
          \/ os.state # "none" /\ cons.ended = "no" /\ ~os.readReq

\* The load and the input stream settle what is pending; every promise
\* reaction that is due runs and the consumer reads again whenever its last
\* read has settled: weak fairness of NextLive, its enabling condition
\* written out as Due.
SpecLive ==
  /\ InitOps /\ [][NextLive]_vars
  /\ WF_vars(UpstreamSettle)
  /\ WF_vars(\E ok \in BOOLEAN : LoadSettle(ok))
  /\ ([]<>(~Due) \/ []<><<TRUE>>_vars)

\* ------------------------------------------- compress with every level probed
NextLevel ==
  \/ \E orig \in SeqsUpTo(Bytes, 1), level \in Levels :
       ClientStart("compress", "buffer", orig, <<>>, level, "close")
  \/ \E ok \in BOOLEAN : LoadSettle(ok)
  \/ FacadeInitFailed(1)
  \/ FacadeConstruct(1)
  \/ \E o \in COracles : FacadeRunBuffer(1, o)

SpecLevel == InitOps /\ [][NextLevel]_vars

\* ------------------------------------------------------ concurrent callers
\* Two callers call initialize, compress and decompress (of a buffer) as they
\* like, a call of one beginning while a call of the other is in progress.
CallerInput(api) ==
  CASE api = "compress" -> <<0>>
    [] api = "decompress" -> Encode(<<0>>)
    [] OTHER -> <<>>

CallerStart(c, api) ==
  /\ loads.calls < MaxCalls
  /\ EnsureInit(c, api, "buffer", CallerInput(api), DefaultLevel)
  /\ UNCHANGED <<engineVars, streamVars, job>>

\* The caller has its result and is free to call again.
CallerReturn(c) ==
  /\ call[c].pc = "done"
  /\ call' = [call EXCEPT ![c] = NoFacadeCall]
  /\ UNCHANGED <<loaderVars, engineVars, streamVars, job>>

NextInit ==
  \/ \E c \in Inst, api \in {"initialize", "compress", "decompress"} : CallerStart(c, api)
  \/ \E ok \in BOOLEAN : LoadSettle(ok)
  \/ \E c \in Inst : FacadeInitFailed(c)
  \/ \E c \in Inst : FacadeInitialized(c)
  \/ \E c \in Inst : FacadeConstruct(c)
  \/ \E c \in Inst : \E o \in OraclesFor(c) : FacadeRunBuffer(c, o)
  \/ \E c \in Inst : CallerReturn(c)

SpecInit == InitOps /\ [][NextInit]_vars

\* --------------------------------------------------- the loader used directly
\* initZstd is called again and again while an engine instance is constructed
\* and initialised, before and after a load has succeeded.
NextModule ==
  \/ InitZstd
  \/ \E ok \in BOOLEAN : LoadSettle(ok)
  \/ EngNewDecompressor(1)
  \/ \E level \in {DefaultLevel} : EngNewCompressor(2, level)
  \/ \E i \in Inst : EngInit(i)

SpecModule == InitOps /\ [][NextModule]_vars

\* ------------------------------------------------- the decoding of one result
\* The results a decompression step can return: consumed (sign bit clear) and
\* produced packed in one number, or a negative number for an error.
StepResults ==
  {Pack(c, p) : c \in 0..(Pow2(HalfBits - 1) - 1), p \in 0..(Half - 1)}
  \cup {-code : code \in 1..Pow2(2 * HalfBits - 1)}

InitDecode ==
  /\ module = TRUE
  /\ initPromise = "settled"
  /\ initialized = TRUE
  /\ loads = NoLoads
  /\ heap = EmptyHeap
  /\ eng = [i \in Inst |-> NoEngine]
  /\ last \in {[NoCall EXCEPT !.op = "decompressStream", !.arg = r] : r \in StepResults}
  /\ bad = {}
  /\ hist = {}
  /\ call = [c \in Inst |-> NoFacadeCall]
  /\ up = NoUpstream
  /\ pipe = NoPipe
  /\ os = NoStream
  /\ cons = NoConsumer
  /\ job = NoJob

\* What one turn of the decode loop makes of the step's result last.arg:
\* compressor.ts 142-154.  out is <<consumed, outputSize>>.
DecodeResult ==
  /\ last.op = "decompressStream"
  /\ last' =
       IF last.arg < 0
       THEN [last EXCEPT !.op = "decoded", !.err = "Codec",
                         !.calls = <<[f |-> "getErrorName", a |-> ErrorCodeOf(last.arg),
                                      b |-> 0, r |-> 0]>>]
       ELSE [last EXCEPT !.op = "decoded",
                         !.out = <<ConsumedOf(last.arg), OutputSizeOf(last.arg)>>,
                         !.err = IF Stalled(ConsumedOf(last.arg), OutputSizeOf(last.arg))
                                 THEN "Stall" ELSE "none"]
  /\ UNCHANGED <<loaderVars, heap, eng, bad, hist, opsVars>>

NextDecode == DecodeResult

SpecDecode == InitDecode /\ [][NextDecode]_vars

\* -------------------------------------------- the decode loop, turn by turn
\* The loop of compressor.ts 133-165 with the step's result left to the
\* engine: any result of StepResults may come back at any turn.  last.data is
\* the input, last.arg is srcPos, last.out the <<consumed, outputSize>> of the
\* latest turn and last.id the length of chunks, counted up to MaxKept.
InitLoop ==
  /\ module = TRUE
  /\ initPromise = "settled"
  /\ initialized = TRUE
  /\ loads = NoLoads
  /\ heap = EmptyHeap
  /\ eng = [i \in Inst |-> NoEngine]
  /\ last \in {[NoCall EXCEPT !.op = "process", !.data = d] :
                 d \in SeqsUpTo(Bytes, MaxData) \ {<<>>}}
  /\ bad = {}
  /\ hist = {}
  /\ call = [c \in Inst |-> NoFacadeCall]
  /\ up = NoUpstream
  /\ pipe = NoPipe
  /\ os = NoStream
  /\ cons = NoConsumer
  /\ job = NoJob

\* One turn of the loop, the step returning result: lines 134-164.
LoopTurn(result) ==
  /\ last.op = "process"
  /\ last.arg < Len(last.data)
  /\ last' =
       IF result < 0 THEN [last EXCEPT !.op = "thrown", !.err = "Codec"]
       ELSE IF Stalled(ConsumedOf(result), OutputSizeOf(result))
       THEN [last EXCEPT !.op = "thrown", !.err = "Stall"]
       ELSE [last EXCEPT !.arg = @ + ConsumedOf(result),
                         !.out = <<ConsumedOf(result), OutputSizeOf(result)>>,
                         !.id = IF OutputSizeOf(result) > 0 THEN Min(@ + 1, MaxKept) ELSE @]
  /\ UNCHANGED <<loaderVars, heap, eng, bad, hist, opsVars>>

\* The loop condition fails and the chunks are returned: lines 133, 167.
LoopExit ==
  /\ last.op = "process"
  /\ ~(last.arg < Len(last.data))
  /\ last' = [last EXCEPT !.op = "returned"]
  /\ UNCHANGED <<loaderVars, heap, eng, bad, hist, opsVars>>

NextLoop ==
  \/ \E result \in StepResults : LoopTurn(result)
  \/ LoopExit

\* The loop is straight-line code: a turn that can be taken is taken.
SpecLoop == InitLoop /\ [][NextLoop]_vars /\ WF_vars(NextLoop)

\* ------------------------------------------------------ claims: the instance
LifecycleErrors == {"NotInitialized", "Destroyed"}

StepsIn(calls) == {j \in 1..Len(calls) : calls[j].f = "decompressStream"}
FreesIn(calls) == {j \in 1..Len(calls) : calls[j].f \in {"free", "freeCCtx", "freeDCtx"}}

\* C4: a process call on an instance that is destroyed, or on which init() has
\* not completed, fails with a lifecycle error and invokes no primitive of the
\* codec module.
C4_ProcessRefused ==
  (last.op = "process" /\ (last.pre.destroyed \/ ~last.pre.module))
    => (last.err \in LifecycleErrors /\ last.calls = <<>>)

\* C4 witness: process was called on an initialised instance after its
\* destroy had freed a context.
C4_Witness ==
  /\ last.op = "process"
  /\ last.pre.destroyed /\ last.pre.module
  /\ "ctxFreed" \in hist
  /\ last.err = "Destroyed"

\* C5: destroy never raises; a destroy call on an already destroyed instance
\* invokes no primitive; no call ever frees a handle its instance does not
\* hold (so nothing is freed twice); one destroy frees at most the context
\* and the scratch buffer.
C5_DestroyIdempotent ==
  /\ last.op = "destroy" => (last.err = "none" /\ Cardinality(FreesIn(last.calls)) <= 2)
  /\ (last.op = "destroy" /\ last.pre.destroyed) => last.calls = <<>>
  /\ "badFree" \notin bad

\* C5 witness: a second destroy, after the first one freed both the context
\* and the scratch buffer.
C5_Witness ==
  /\ last.op = "destroy" /\ last.pre.destroyed
  /\ {"ctxFreed", "bufFreed"} \subseteq hist

\* C6: in a decompressor's process call, a step that reports consumed = 0 and
\* produced = 0 ends the call with a stall error, no bytes returned, and no
\* later step.
C6_StallAborts ==
  \A j \in StepsIn(last.calls) :
    last.calls[j].r = Pack(0, 0)
      => /\ last.err = "Stall"
         /\ last.out = <<>>
         /\ \A k \in StepsIn(last.calls) : k <= j

\* C6 witness: a stall at the second step, after a first step that produced
\* output.
C6_Witness ==
  /\ last.op = "process" /\ last.err = "Stall"
  /\ \E j \in StepsIn(last.calls) :
       /\ last.calls[j].r = Pack(0, 0)
       /\ \E k \in StepsIn(last.calls) : k < j /\ last.calls[k].r % Half > 0

\* ------------------------------------------------------ claims: the facade
Facade == {"compress", "decompress"}
Streams == {"compressStream", "decompressStream"}

OpsIn(log, op) == {j \in 1..Len(log) : log[j].op = op}

\* C1: whenever compress(b) of a buffer and then decompress of its result both
\* return without an error, the bytes returned equal b.
C1_RoundTrip ==
  (/\ job.stage = 2
   /\ call[1].api = "compress" /\ call[1].form = "buffer"
   /\ call[2].api = "decompress" /\ call[2].form = "buffer"
   /\ call[2].pc = "done" /\ call[2].err = "none")
    => call[2].result = job.orig

\* C1 failing case: compress of three bytes and decompress of its result both
\* returned without an error, and only the first two bytes came back.
C1_Witness ==
  /\ job.stage = 2 /\ Len(job.orig) = 3
  /\ call[1].api = "compress" /\ call[1].form = "buffer"
  /\ call[2].api = "decompress" /\ call[2].form = "buffer"
  /\ call[2].pc = "done" /\ call[2].err = "none"
  /\ call[2].result = Take(job.orig, 2)

C8_FacadeDestroysOnce ==
  \A c \in Inst :
    (call[c].api \in Facade /\ call[c].pc = "done" /\ call[c].created)
      => /\ Cardinality(OpsIn(call[c].log, "destroy")) = 1
         /\ call[c].log[Len(call[c].log)].op = "destroy"
         /\ eng[c].destroyed
         /\ \A j \in OpsIn(call[c].log, "process") :
              call[c].log[j].err # "none" => call[c].err = call[c].log[j].err

\* C8 witness: compress of a stream whose second process call threw.
C8_Witness ==
  /\ call[1].api = "compress" /\ call[1].form = "stream" /\ call[1].pc = "done"
  /\ call[1].err = "Codec"
  /\ Cardinality(OpsIn(call[1].log, "process")) = 2
  /\ "ctxFreed" \in hist

\* ------------------------------------------------------ claims: the pipeline
\* The operation of call c has ended: its promise is settled (compress,
\* decompress), or its output stream is closed or errored.
Ended(c) ==
  /\ call[c].pc = "done"
  /\ call[c].api \in Streams => os.state \in {"closed", "errored"}

ProcessErrors == {"Initialization", "Allocation", "Codec", "Stall", "Destroyed"}

\* C2: whenever compressStream over the chunks of the input and then
\* decompressStream over the chunks it emitted both end normally, the
\* concatenation of the chunks read equals the input.
C2_ChunkIndependence ==
  (/\ job.stage = 2
   /\ call[1].api = "compressStream" /\ call[2].api = "decompressStream"
   /\ cons.ended = "done")
    => Flatten(cons.got) = job.orig

\* C2 failing case: the input came as one chunk of three bytes, both streams
\* ended normally, and the third byte is missing.
C2_Witness ==
  /\ job.stage = 2 /\ job.chunks = <<job.orig>> /\ Len(job.orig) = 3
  /\ call[1].api = "compressStream" /\ call[2].api = "decompressStream"
  /\ cons.ended = "done"
  /\ Flatten(cons.got) = Take(job.orig, 2)

\* C3: when an operation has ended, by success, by an error of the engine or
\* of the input stream, or by the consumer's cancel, no foreign allocation is
\* live; and no input copy outlives the process call that made it.
C3_NothingLeftLive ==
  /\ \A c \in Inst : (c = job.stage /\ Ended(c)) => Live(heap) = {}
  /\ \A h \in Live(heap) : heap[h].role # "src"
  /\ "badFree" \notin bad

\* C3 witness: the consumer cancelled compressStream while its engine held a
\* context and a scratch buffer, and both were freed.
C3_Witness ==
  /\ job.stage = 1 /\ call[1].api = "compressStream"
  /\ cons.handler
  /\ {"ctxFreed", "bufFreed"} \subseteq hist
  /\ Live(heap) = {}

\* C9 as stated: whenever the catch block of pull handled a failed upstream
\* read or an error thrown by process, the output stream is errored with that
\* error.
C9_AlwaysErrored ==
  pipe.caught \in ProcessErrors \cup {"Upstream"}
    => (os.state = "errored" /\ os.storedError = pipe.caught)

\* C9: whenever the catch block of pull has handled an error, the upstream
\* lock is released and the engine destroyed, with nothing live; the output
\* stream is errored with that error, and stays so, unless the consumer had
\* cancelled it before: then it stays closed and the error is dropped.
C9_PullErrorHandled ==
  pipe.caught # "none"
    => /\ ~up.locked
       /\ eng[job.stage].destroyed
       /\ Live(heap) = {}
       /\ IF pipe.lateCatch THEN os.state = "closed" /\ cons.handler
          ELSE os.state = "errored" /\ os.storedError = pipe.caught

\* C9 witness: process threw in decompressStream after an earlier chunk had
\* been decoded and read; the stream is errored with the codec's error.
C9_Witness ==
  /\ job.stage = 2 /\ call[2].api = "decompressStream"
  /\ pipe.caught = "Codec" /\ ~pipe.lateCatch
  /\ os.state = "errored" /\ os.storedError = "Codec"
  /\ cons.got # <<>>
  /\ "bufFreed" \in hist

\* C10: a cancel of the consumer on a readable output stream releases the
\* upstream lock and destroys the engine in that very step, leaving nothing
\* live; and once the cancel handler has run no step starts an upstream read.
C10_CancelReleases ==
  [][/\ (cons.ended = "no" /\ cons'.ended = "cancelled" /\ os.state = "readable")
          => (/\ cons'.handler
              /\ ~up'.locked
              /\ pipe.engine => eng'[job.stage].destroyed
              /\ Live(heap') = {})
     /\ cons.handler => (up'.nreads = up.nreads /\ up'.rs # "reading")]_vars

\* C10 witness: the cancel came while pull was suspended on an upstream read,
\* the engine holding a context; the rejected read then ended the pull.
C10_Witness ==
  /\ cons.handler
  /\ pipe.caught = "Released"
  /\ "ctxFreed" \in hist
  /\ up.nreads = cons.readsAtCancel

\* ------------------------------------------- claims: the protocol of a stream
\* The process calls of call c, in order.
ProcessLog(c) == SelectSeq(call[c].log, LAMBDA r : r.op = "process")

\* What those calls were passed, and what compressStream is to pass for the
\* chunks of its input: every chunk, not last, and then the empty flush.
Passed(c) ==
  [j \in 1..Len(ProcessLog(c)) |->
     [n |-> ProcessLog(c)[j].n, isLast |-> ProcessLog(c)[j].isLast]]

Fed(chunks) ==
  [j \in 1..(Len(chunks) + 1) |->
     IF j <= Len(chunks) THEN [n |-> Len(chunks[j]), isLast |-> FALSE]
     ELSE [n |-> 0, isLast |-> TRUE]]

IsPrefix(s, t) == Len(s) <= Len(t) /\ \A j \in 1..Len(s) : s[j] = t[j]

\* The results of the process calls of call c that were not empty, in order.
Results(c) ==
  LET R == ProcessLog(c)
  IN SelectSeq([j \in 1..Len(R) |-> R[j].out], LAMBDA x : x # <<>>)

\* The process calls of call c that returned nothing for a chunk that was
\* not the last.
EmptyResults(c) ==
  {j \in 1..Len(call[c].log) :
     /\ call[c].log[j].op = "process" /\ call[c].log[j].err = "none"
     /\ ~call[c].log[j].isLast /\ call[c].log[j].out = <<>>}

\* C11: the process calls of compressStream are always a prefix of: one call
\* per upstream chunk, not last, in upstream order, then one call with an
\* empty chunk and isLast; once pull has seen the end of the input without an
\* error all of them were made, the flush result, if not empty, is the last
\* chunk emitted, the close was requested after it, and a consumer that reads
\* to the end gets every emitted chunk.
C11_FlushOnce ==
  (job.stage = 1 /\ call[1].api = "compressStream")
    => /\ IsPrefix(Passed(1), Fed(job.chunks))
       /\ (pipe.inputDone /\ pipe.caught = "none")
            => /\ Passed(1) = Fed(job.chunks)
               /\ os.closeRequested
               /\ LET flush == ProcessLog(1)[Len(ProcessLog(1))]
                  IN flush.out # <<>>
                       => /\ pipe.emitted # <<>>
                          /\ pipe.emitted[Len(pipe.emitted)] = flush.out
               /\ cons.ended = "done" => cons.got = pipe.emitted

\* C11 witness: compressStream over three chunks, one of them empty, read to
\* its end: four process calls, the last one the flush.
C11_Witness ==
  /\ job.stage = 1 /\ call[1].api = "compressStream"
  /\ Len(job.chunks) = 3 /\ \E j \in 1..3 : job.chunks[j] = <<>>
  /\ pipe.inputDone /\ pipe.caught = "none" /\ cons.ended = "done"
  /\ Len(ProcessLog(1)) = 4
  /\ ProcessLog(1)[4].out # <<>>

\* C12: every chunk a stream pipeline has enqueued, holds in its queue or has
\* handed to the consumer has at least one byte.
C12_NoEmptyChunk ==
  pipe.kind # "none"
    => /\ \A j \in 1..Len(pipe.emitted) : Len(pipe.emitted[j]) > 0
       /\ \A j \in 1..Len(os.queue) : Len(os.queue[j]) > 0
       /\ \A j \in 1..Len(cons.got) : Len(cons.got[j]) > 0

\* C12 witness: process returned nothing for a chunk of compressStream, which
\* went on and emitted a later result.
C12_Witness ==
  /\ job.stage = 1 /\ call[1].api = "compressStream"
  /\ EmptyResults(1) # {}
  /\ pipe.emitted # <<>>

\* C13 as stated: a pull that has returned has emitted a chunk, or the stream
\* is closed, closing or errored.
C13_PullNeverIdle ==
  (pipe.kind # "none" /\ pipe.pc = "returned")
    => \/ Len(pipe.emitted) > pipe.mark
       \/ os.state # "readable"
       \/ os.closeRequested

\* C13 failing case: the first chunk of decompressStream's input had no
\* bytes, process returned nothing and pull returned; the consumer's read is
\* pending, input is left, and no pull is in flight or due.
C13_Witness ==
  /\ job.stage = 2 /\ call[2].api = "decompressStream"
  /\ Len(ProcessLog(2)) = 1 /\ ProcessLog(2)[1].n = 0
  /\ pipe.pc = "idle" /\ ~os.pulling /\ ~os.pullAgain
  /\ os.state = "readable" /\ os.readReq
  /\ up.chunks # <<>>

\* C14: a pull emits at most one chunk; after it has emitted its chunk no
\* step of the same pull starts an upstream read, and neither does the step
\* that emits.
C14_OneChunkPerPull ==
  [][/\ Len(pipe'.emitted) - pipe'.mark <= 1
     /\ (pipe'.pulls = pipe.pulls /\ Len(pipe.emitted) > pipe.mark)
          => up'.nreads = up.nreads
     /\ (pipe'.pulls = pipe.pulls /\ Len(pipe'.emitted) > Len(pipe.emitted))
          => up'.nreads = up.nreads]_vars

\* C14 witness: the second pull has emitted its chunk and returned with input
\* left unread.
C14_Witness ==
  /\ pipe.kind # "none" /\ pipe.pc = "returned" /\ pipe.pulls = 2
  /\ Len(pipe.emitted) = pipe.mark + 1
  /\ up.chunks # <<>>
  /\ up.nreads = 2

\* C15 as stated: a step of a pipeline starts an upstream read only while a
\* read of the consumer is outstanding.
C15_ReadsOnlyOnRequest ==
  [][(pipe'.kind # "none" /\ up'.nreads > up.nreads) => os'.readReq]_vars

\* C15: a step of a pipeline starts an upstream read only while the output
\* stream is readable and not closing, and a read of the consumer is
\* outstanding or the queue of the output stream is empty.
C15_ReadsOnDemand ==
  [][(pipe'.kind # "none" /\ up'.nreads > up.nreads)
       => /\ os'.state = "readable" /\ ~os'.closeRequested
          /\ (os'.readReq \/ os'.queue = <<>>)]_vars

\* C15 witness: the first upstream read was started with the consumer never
\* having asked for anything.
C15_Witness ==
  /\ pipe.kind # "none"
  /\ up.nreads = 1 /\ up.rs = "reading"
  /\ cons = NoConsumer /\ ~os.readReq

C17_EmittedInOrder ==
  \A c \in Inst :
    (c = job.stage /\ pipe.kind # "none")
      => /\ pipe.emitted = Results(c)
         /\ IsPrefix(cons.got, pipe.emitted)
         /\ (os.state = "readable" /\ cons.ended = "no")
              => cons.got \o os.queue = pipe.emitted

\* C17 witness: the consumer has read two chunks of decompressStream, the
\* results of its first two process calls, to the end.
C17_Witness ==
  /\ job.stage = 2 /\ call[2].api = "decompressStream"
  /\ Len(cons.got) = 2 /\ cons.ended = "done"
  /\ cons.got = <<ProcessLog(2)[1].out, ProcessLog(2)[2].out>>

\* The running totals of the lengths of chunks.
Totals(chunks) == [k \in 1..Len(chunks) |-> Len(Flatten(Take(chunks, k)))]

Increasing(p) == \A k \in 1..(Len(p) - 1) : p[k] < p[k + 1]

\* C18: the progress reports of a call are the running totals of the chunks
\* it has emitted (pipelines) or kept (compress and decompress of a stream),
\* so they increase with every chunk; compress and decompress of a buffer
\* report the length of the result, once; and when a call has delivered all
\* its output the last report is the total length of that output.
C18_ProgressCumulative ==
  /\ pipe.kind # "none"
       => /\ pipe.progress = Totals(pipe.emitted)
          /\ Increasing(pipe.progress)
          /\ (cons.ended = "done" /\ pipe.progress # <<>>)
               => pipe.progress[Len(pipe.progress)] = Len(Flatten(cons.got))
  /\ \A c \in Inst :
       call[c].api \in Facade
         => IF call[c].form = "stream"
            THEN /\ call[c].progress = Totals(call[c].chunks)
                 /\ Increasing(call[c].progress)
                 /\ (call[c].pc = "done" /\ call[c].err = "none"
                       /\ call[c].progress # <<>>)
                      => call[c].progress[Len(call[c].progress)] = Len(call[c].result)
            ELSE /\ (call[c].pc = "done" /\ call[c].err = "none" /\ call[c].created)
                      => call[c].progress = <<Len(call[c].result)>>
                 /\ (call[c].pc # "done" \/ call[c].err # "none")
                      => call[c].progress = <<>>

\* C18 witness: compressStream was read to its end and reported progress
\* three times.
C18_Witness ==
  /\ job.stage = 1 /\ call[1].api = "compressStream"
  /\ cons.ended = "done"
  /\ Len(pipe.progress) = 3

\* ------------------------------------------------------ claims: the loader
\* C19: whatever way the calls of concurrent callers interleave, every call
\* that waits for the codec module waits for the one load in flight, and a
\* load is started only when every load before it has failed.
C19_SingleFlight ==
  /\ loads.started <= loads.failed + 1
  /\ \A c \in Inst : call[c].pc = "awaitInit" => initPromise = "pending"
  /\ initPromise = "pending" => (loads.started = loads.failed + 1 /\ ~module)
  /\ module => loads.started = loads.failed + 1

\* C19 witness: a compress and a decompress call both wait for the load that
\* the first of them started.
C19_Witness ==
  /\ call[1].pc = "awaitInit" /\ call[2].pc = "awaitInit"
  /\ {call[1].api, call[2].api} = {"compress", "decompress"}
  /\ loads.invoked = 2 /\ loads.started = 1 /\ loads.failed = 0

\* C20: once a call has set the facade's flag, no step calls initZstd or
\* starts a load; and when no call began while another was in progress and no
\* load failed, initZstd was called exactly once by the time the flag is set.
C20_InitializeIdempotent ==
  [][/\ initialized
          => (loads'.invoked = loads.invoked /\ loads'.started = loads.started)
     /\ (initialized' /\ ~loads'.overlap /\ loads'.failed = 0)
          => (loads'.invoked = 1 /\ loads'.started = 1)]_vars

\* C20 witness: three calls one after the other, the third one a compress in
\* progress, with initZstd called once.
C20_Witness ==
  /\ initialized /\ ~loads.overlap /\ loads.failed = 0
  /\ loads.calls = 3 /\ loads.invoked = 1
  /\ \E c \in Inst : call[c].api = "compress" /\ call[c].pc = "inited"

\* C21: getModule fails exactly while no load has succeeded; once a load has
\* succeeded the module stays set and stays the object of that load, whatever
\* initZstd is called afterwards.
C21_ModuleStable ==
  [][/\ module => (module' /\ loads'.loaded = loads.loaded)
     /\ module' <=> loads'.loaded # 0
     /\ (last' # last /\ last'.op = "init")
          => /\ last'.err = (IF module THEN "none" ELSE "ModuleNotInitialized")
             /\ eng'[last'.id].module = (eng[last'.id].module \/ module)]_vars

\* C21 witness: the first load failed, the second succeeded, initZstd was
\* called twice more, and an instance was initialised with the module of the
\* second load after the other failed to initialise.
C21_Witness ==
  /\ module /\ loads.loaded = 2 /\ loads.failed = 1 /\ loads.started = 2
  /\ loads.invoked = 4
  /\ last.op = "init" /\ last.err = "none"
  /\ \E i \in Inst : eng[i].kind # "none" /\ ~eng[i].module

\* ---------------------------------------------- claims: concurrent facade calls
\* The ways compress / decompress of the callers' input can end when the call
\* is the only one: a new instance on an empty heap, one process call.
AloneOutcomes(api) ==
  LET Ran(M) == [err |-> M.err, out |-> M.out]
      Fresh == [(IF KindOf(api) = "C" THEN NewCompressor(1, DefaultLevel)
                 ELSE NewDecompressor(1)) EXCEPT !.module = TRUE]
  IN {Ran(Process(Machine(Fresh, EmptyHeap), CallerInput(api), TRUE, o)) :
        o \in IF KindOf(api) = "C" THEN COracles ELSE DOracles}

\* C22: when compress and decompress calls of two callers overlap, each call
\* works on the engine instance it constructed itself, no instance uses or
\* frees a handle it does not hold, the instances never hold a handle in
\* common, and each call ends the way it can end when it runs alone.
C22_CallsIndependent ==
  /\ bad = {}
  /\ \A c \in Inst : eng[c].id \in {0, c}
  /\ \A h \in Live(heap) : \E c \in Inst : heap[h].owner = c /\ ~eng[c].destroyed
  /\ ({eng[1].ctx, eng[1].buffer} \cap {eng[2].ctx, eng[2].buffer}) \subseteq {0}
  /\ \A c \in Inst :
       (call[c].api \in Facade /\ call[c].pc = "done" /\ call[c].err # "InitFailed")
         => /\ [err |-> call[c].err, out |-> call[c].result] \in AloneOutcomes(call[c].api)
            /\ Cardinality(OpsIn(call[c].log, "process")) = 1
            /\ eng[c].kind = KindOf(call[c].api) /\ eng[c].destroyed

\* C22 witness: a compress call and a decompress call that began while it was
\* in progress have both returned their results.
C22_Witness ==
  /\ loads.overlap /\ loads.calls = 2
  /\ call[1].api = "compress" /\ call[1].pc = "done" /\ call[1].err = "none"
  /\ call[1].result = Encode(CallerInput("compress"))
  /\ call[2].api = "decompress" /\ call[2].pc = "done" /\ call[2].err = "none"
  /\ call[2].result = <<0>>

\* ------------------------------------------------ claims: failures of decoding
\* C23: whenever decompress or decompressStream ends normally, the compressed
\* input it was given consisted of finished frames and the bytes delivered are
\* all the bytes of those frames; a call whose input ends inside a frame does
\* not end normally.
C23_NoSilentPartial ==
  LET Whole(p) == p.ok /\ p.st = "start" /\ Flatten(Output(2)) = p.out
  IN (job.stage = 2 /\ KindOf(call[2].api) = "D" /\ Delivered(2))
       => Whole(Parse("start", Flatten(job.mid)))

\* C23 failing case: the compressed input of decompressStream ends inside a
\* frame; the stream closed normally and the consumer read to the end,
\* receiving fewer bytes than were compressed.
C23_Witness ==
  /\ job.stage = 2 /\ call[1].api = "compress" /\ call[1].form = "buffer"
  /\ call[2].api = "decompressStream"
  /\ Parse("start", Flatten(job.mid)).st = "body"
  /\ os.state = "closed" /\ os.storedError = "none" /\ cons.ended = "done"
  /\ call[2].err = "none" /\ pipe.caught = "none"
  /\ Len(Flatten(cons.got)) < Len(job.orig)

\* ------------------------------------------- claims: the resources of an instance
\* A process call the instance does not refuse.
Accepted == last.op = "process" /\ last.pre.module /\ ~last.pre.destroyed

\* The names of the primitives a call invoked, in order.
Names(calls) == [j \in 1..Len(calls) |-> calls[j].f]

\* C24: a process call of a compressor with no data and isLast false returns
\* an empty chunk and invokes no primitive of the codec module, whether it is
\* the first call on the instance or a later one.
C24_EmptyTouchesNothing ==
  (Accepted /\ last.pre.kind = "C" /\ last.data = <<>> /\ ~last.isLast)
    => (last.err = "none" /\ last.out = <<>> /\ last.calls = <<>>)

\* C24 failing case: the first process call on a compressor had no data and
\* isLast false; it returned an empty chunk after creating the context and
\* initialising its stream.
C24_Witness ==
  /\ Accepted /\ last.pre.kind = "C" /\ last.data = <<>> /\ ~last.isLast
  /\ last.pre.ctx = 0
  /\ last.err = "none" /\ last.out = <<>>
  /\ Names(last.calls) = <<"createCCtx", "initCStream">>

\* The size the codec module reports for the scratch buffer of an instance.
OutSizeOf(e) == IF e.kind = "C" THEN CStreamOutSize ELSE DStreamOutSize

CallsOf(calls, fs) == {j \in 1..Len(calls) : calls[j].f \in fs}

InitFailedIn(calls) ==
  \E j \in 1..Len(calls) :
    \/ calls[j].f \in {"createCCtx", "createDCtx"} /\ calls[j].b = 0
    \/ calls[j].f = "initCStream" /\ calls[j].r # 0
    \/ calls[j].f = "initDStream" /\ calls[j].r = 0

SrcMallocs(calls) ==
  {j \in CallsOf(calls, {"malloc"}) :
     j = 1 \/ calls[j - 1].f \notin {"cStreamOutSize", "dStreamOutSize"}}

\* C27: a process call of either kind that allocated an input copy frees it
\* exactly once, as the last primitive it invokes, whether it returns or fails
\* for want of a scratch buffer, on a negative step result or on a stall; the
\* copy is not live afterwards.
C27_InputCopyFreed ==
  /\ last.op = "process"
       => \A j \in SrcMallocs(last.calls) :
            last.calls[j].b # 0
              => /\ Cardinality({k \in CallsOf(last.calls, {"free"}) :
                                  last.calls[k].a = last.calls[j].b}) = 1
                 /\ last.calls[Len(last.calls)].f = "free"
                 /\ last.calls[Len(last.calls)].a = last.calls[j].b
                 /\ heap[last.calls[j].b].role = "free"
                 /\ Cardinality(SrcMallocs(last.calls)) = 1
  /\ \A h \in Live(heap) : heap[h].role \in {"cctx", "dctx", "buf"}
  /\ "badFree" \notin bad

\* C27 witness: the first process call of a compressor allocated its input
\* copy, found no memory for the scratch buffer, and freed the copy before it
\* failed.
C27_Witness ==
  /\ Accepted /\ last.pre.kind = "C" /\ last.err = "Allocation"
  /\ Names(last.calls) = <<"createCCtx", "initCStream", "malloc", "cStreamOutSize",
                           "malloc", "free">>
  /\ last.calls[3].b # 0 /\ last.calls[5].b = 0
  /\ last.calls[6].a = last.calls[3].b

\* C28: when a process call fails for want of memory, on a negative step
\* result or on a stall, the instance holds neither context nor scratch buffer
\* afterwards and no foreign memory is live.
C28_FailureFreesAll ==
  (Accepted /\ last.err \in {"Allocation", "Codec", "Stall"})
    => (eng[1].ctx = 0 /\ eng[1].buffer = 0 /\ Live(heap) = {})

\* C28 failing case: a decompressor's process call failed on a negative step
\* result; its input copy is freed, and the instance still holds the context
\* and the scratch buffer, both live.
C28_Witness ==
  /\ Accepted /\ last.pre.kind = "D" /\ last.err = "Codec"
  /\ eng[1].ctx # 0 /\ eng[1].buffer # 0 /\ ~eng[1].destroyed
  /\ Live(heap) = {eng[1].ctx, eng[1].buffer}
  /\ last.calls[Len(last.calls)].f = "free"

\* C29: for every decompression step of a process call that returns a
\* negative result r, the call fails with a codec error and the code it
\* passes to getErrorName is -r.
C29_ErrorCodeIsMagnitude ==
  (last.op = "process" /\ last.pre.kind = "D")
    => \A j \in StepsIn(last.calls) :
         last.calls[j].r < 0
           => /\ last.err = "Codec"
              /\ last.calls[j + 1].f = "getErrorName"
              /\ last.calls[j + 1].a = -last.calls[j].r

\* C29 failing case: a step returned -StepErrorCode, the call failed with a
\* codec error, and the code passed to getErrorName is the result with its
\* sign bit cleared, which is not StepErrorCode.
C29_Witness ==
  /\ last.op = "process" /\ last.pre.kind = "D" /\ last.err = "Codec"
  /\ \E j \in StepsIn(last.calls) :
       /\ last.calls[j].r = -StepErrorCode
       /\ last.calls[j + 1].f = "getErrorName"
       /\ last.calls[j + 1].a = Pow2(2 * HalfBits - 1) - StepErrorCode
       /\ last.calls[j + 1].a # StepErrorCode

\* C30: for every consumed c below 2^31 and produced p below 2^32 (at the
\* model's width: c below 2^(HalfBits-1), p below 2^HalfBits), the loop decodes
\* the result c * 2^32 + p as consumed = c and outputSize = p.
C30_DecodeSymmetric ==
  last.op = "decoded"
    => \A c \in 0..(Pow2(HalfBits - 1) - 1), p \in 0..(Half - 1) :
         last.arg = c * Half + p
           => /\ last.out = <<c, p>>
              /\ last.err = (IF c = 0 /\ p = 0 THEN "Stall" ELSE "none")

\* C30 witness: the result with the largest consumed and the largest produced
\* was decoded.
C30_Witness ==
  /\ last.op = "decoded"
  /\ last.arg = (Pow2(HalfBits - 1) - 1) * Half + (Half - 1)
  /\ last.out = <<Pow2(HalfBits - 1) - 1, Half - 1>>
  /\ last.err = "none"

\* ------------------------------------------------ claims: the decode loop
\* C31: in a decompressor's process call the first step is given the whole
\* input copy, every step is given the part from the current offset to the
\* end, the offset of the next step is the offset plus the consumed count the
\* step reported, the offset stays within the input, and the call returns
\* without an error only when the offset has reached the end of the input.
C31_SuffixFed ==
  (Accepted /\ last.pre.kind = "D")
    => /\ \A j \in StepsIn(last.calls) :
            /\ 0 <= last.calls[j].a /\ last.calls[j].a < Len(last.data)
            /\ last.calls[j].b = Len(last.data) - last.calls[j].a
            /\ (j - 1) \notin StepsIn(last.calls) => last.calls[j].a = 0
            /\ last.calls[j].r >= 0
                 => last.calls[j].a + (last.calls[j].r \div Half) <= Len(last.data)
            /\ (j + 1) \in StepsIn(last.calls)
                 => last.calls[j + 1].a = last.calls[j].a + (last.calls[j].r \div Half)
            /\ ((j + 1) \notin StepsIn(last.calls) /\ last.err = "none")
                 => last.calls[j].a + (last.calls[j].r \div Half) = Len(last.data)
       /\ (last.err = "none" /\ last.data # <<>>) => StepsIn(last.calls) # {}

\* C31 witness: a call on two bytes of input returned after two steps, the
\* second of them given the last byte alone.
C31_Witness ==
  /\ Accepted /\ last.pre.kind = "D" /\ last.err = "none" /\ Len(last.data) = 2
  /\ Cardinality(StepsIn(last.calls)) = 2
  /\ \E j \in StepsIn(last.calls) :
       /\ last.calls[j].a = 1 /\ last.calls[j].b = 1
       /\ last.calls[j].r \div Half = 1

\* C32: a decompressor's process call that returns, returns the bytes the
\* decoder handed out during the call in the order it handed them out: the
\* bytes the context held back before the call followed by the bytes decoded
\* from the input, less the bytes the context holds back afterwards; their
\* number is the sum of the produced counts of the steps.
RECURSIVE SumProduced(_, _)
SumProduced(calls, j) ==
  IF j = 0 THEN 0
  ELSE SumProduced(calls, j - 1)
       + (IF calls[j].f = "decompressStream" /\ calls[j].r >= 0 THEN calls[j].r % Half
          ELSE 0)

HeldBack(H, e) == IF e.ctx = 0 THEN <<>> ELSE H[e.ctx].pend

DecoderAt(H, e) == IF e.ctx = 0 THEN "start" ELSE H[e.ctx].st

C32_OutputInStepOrder ==
  [][(last'.op = "process" /\ last'.pre = eng[1] /\ eng[1].kind = "D"
      /\ eng[1].module /\ ~eng[1].destroyed /\ last'.err = "none"
      /\ last'.data # <<>>)
       => /\ HeldBack(heap, eng[1]) \o Parse(DecoderAt(heap, eng[1]), last'.data).out
               = last'.out \o HeldBack(heap', eng'[1])
          /\ Len(last'.out) = SumProduced(last'.calls, Len(last'.calls))]_vars

\* C32 witness: a call returned two bytes collected by two steps of one byte
\* each, the first byte before the second.
C32_Witness ==
  /\ Accepted /\ last.pre.kind = "D" /\ last.err = "none"
  /\ last.out = <<0, 1>> /\ last.data = <<0, 1>>
  /\ Cardinality({j \in StepsIn(last.calls) : last.calls[j].r % Half = 1}) = 2

\* C40: an instance that holds a scratch buffer holds a context, and a
\* destroyed instance holds neither.
C40_HandlesConsistent ==
  \A i \in Inst :
    /\ eng[i].buffer # 0 => eng[i].ctx # 0
    /\ eng[i].destroyed => (eng[i].ctx = 0 /\ eng[i].buffer = 0)
    /\ eng[i].ctx # 0 => (heap[eng[i].ctx].owner = i /\ eng[i].module)

\* C40 witness: an instance that held a context and a scratch buffer was
\* destroyed and holds neither.
C40_Witness ==
  /\ last.op = "destroy" /\ last.pre.ctx # 0 /\ last.pre.buffer # 0
  /\ eng[1].destroyed /\ eng[1].ctx = 0 /\ eng[1].buffer = 0
  /\ Live(heap) = {}

\* ------------------------------------------------ claims: the end of a stream
\* What decompressStream is to pass to process for the chunks of its input:
\* every chunk, not last, and nothing else.
FedNoFlush(chunks) ==
  [j \in 1..Len(chunks) |-> [n |-> Len(chunks[j]), isLast |-> FALSE]]

\* The chunks the input stream of the second stage was created with.
Inputs == {job.mid, <<<<>>>> \o job.mid}

\* C33: the process calls of decompressStream are always a prefix of one call
\* per upstream chunk, in upstream order; once its pull has seen the end of
\* the input without an error, exactly these calls were made, none of them
\* after the end was seen, the close of the output stream is requested, the
\* upstream lock is released and the engine is destroyed.
C33_NoFlushOnEnd ==
  (job.stage = 2 /\ call[2].api = "decompressStream" /\ pipe.kind = "D")
    => /\ \E chunks \in Inputs : IsPrefix(Passed(2), FedNoFlush(chunks))
       /\ Len(Passed(2)) <= up.nreads
       /\ (pipe.inputDone /\ pipe.caught = "none")
            => /\ \E chunks \in Inputs : Passed(2) = FedNoFlush(chunks)
               /\ Len(Passed(2)) = up.nreads - 1
               /\ os.closeRequested \/ os.state = "closed"
               /\ ~up.locked
               /\ eng[2].destroyed
               /\ call[2].log[Len(call[2].log)].op = "destroy"

\* C33 witness: decompressStream over two chunks was read to its end: two
\* process calls, then the destroy.
C33_Witness ==
  /\ job.stage = 2 /\ call[2].api = "decompressStream" /\ pipe.kind = "D"
  /\ pipe.inputDone /\ pipe.caught = "none" /\ cons.ended = "done"
  /\ up.nreads = 3 /\ Len(ProcessLog(2)) = 2
  /\ os.state = "closed" /\ ~up.locked /\ eng[2].destroyed
  /\ Cardinality(OpsIn(call[2].log, "destroy")) = 1

\* The output stream is closed or errored (a cancel closes it).
Over == os.state \in {"closed", "errored"}

NProcess(log) == Cardinality(OpsIn(log, "process"))

\* C34 as stated: once the output stream is closed, errored or cancelled, no
\* step of the pipeline starts an upstream read, calls process, emits a chunk
\* or enters pull.
C34_NoWorkAfterEnd ==
  [][(Over /\ job' = job)
       => /\ up'.nreads = up.nreads
          /\ pipe'.emitted = pipe.emitted
          /\ pipe'.pulls = pipe.pulls
          /\ \A c \in Inst : NProcess(call'[c].log) = NProcess(call[c].log)]_vars

\* C34, amended: once the output stream is closed, errored or cancelled, no
\* step starts an upstream read, emits a chunk or enters pull, and no
\* primitive of the codec module is invoked except by destroy; the one process
\* call that can still be made is that of a pull whose read had settled when
\* the consumer cancelled, and it is refused because the instance is destroyed.
C34_OnlyRefusedCallAfterEnd ==
  [][(Over /\ job' = job)
       => /\ up'.nreads = up.nreads
          /\ pipe'.emitted = pipe.emitted /\ os'.queue = os.queue
          /\ pipe'.pulls = pipe.pulls
          /\ \A c \in Inst :
               NProcess(call'[c].log) # NProcess(call[c].log)
                 => /\ NProcess(call'[c].log) = NProcess(call[c].log) + 1
                    /\ cons.ended = "cancelled" /\ pipe.pc = "await"
                    /\ up.rs = "settled"
                    /\ pipe'.caught = "Destroyed" /\ pipe'.pc = "returned"
                    /\ heap' = heap
          /\ Live(heap') \subseteq Live(heap)]_vars

\* C34 witness: the consumer cancelled while pull held a chunk its read had
\* delivered; the resumed pull called process on the destroyed instance.
C34_Witness ==
  /\ pipe.kind # "none" /\ cons.ended = "cancelled" /\ pipe.caught = "Destroyed"
  /\ \E c \in Inst : \E j \in OpsIn(call[c].log, "destroy") :
       /\ j < Len(call[c].log)
       /\ call[c].log[j + 1].op = "process"
       /\ call[c].log[j + 1].err = "Destroyed"
       /\ call[c].log[j + 1].n > 0

\* C37: whenever the output stream of compressStream or decompressStream is
\* closed or errored, the lock on the input stream is released.
C37_LockReleased ==
  (pipe.kind # "none" /\ Over) => ~up.locked

\* C37 failing case: compressStream was called with a level outside 1..19;
\* start threw, the output stream is errored with the validation error, no
\* engine exists, and the input stream is still locked.
C37_Witness ==
  /\ \E c \in Inst : /\ c = job.stage /\ call[c].api = "compressStream"
                      /\ LevelRejected(call[c].level) /\ call[c].pc = "done"
  /\ os.state = "errored" /\ os.storedError = "Validation"
  /\ ~pipe.engine /\ pipe.startp = "done"
  /\ up.locked /\ up.nreads = 0

\* C38: in a stream pipeline no instance ever uses or frees a handle it does
\* not hold; once the pipeline's instance is destroyed no step invokes a
\* primitive of the codec module or changes the instance, whatever the order
\* of the consumer's cancel and the pull suspended on its read; and after the
\* cancel handler has run nothing is live, although the resumed pull calls
\* destroy once more.
C38_NoUseAfterFree ==
  [][/\ bad' = {}
     /\ \A c \in Inst :
          (c = job.stage /\ job' = job /\ pipe.kind # "none" /\ eng[c].destroyed)
            => (heap' = heap /\ eng'[c] = eng[c] /\ hist' = hist)
     /\ (pipe'.kind # "none" /\ cons'.handler)
          => /\ Live(heap') = {}
             /\ pipe'.engine => (\E c \in Inst : c = job'.stage /\ eng'[c].destroyed)]_vars

\* C38 witness: the consumer cancelled while pull was suspended on a read;
\* the cancel handler freed the context and the scratch buffer, the resumed
\* pull called destroy again, and nothing was freed twice.
C38_Witness ==
  /\ pipe.kind # "none" /\ cons.handler /\ pipe.lateCatch
  /\ {"ctxFreed", "bufFreed"} \subseteq hist
  /\ \E c \in Inst : c = job.stage /\ Cardinality(OpsIn(call[c].log, "destroy")) = 2
  /\ Live(heap) = {} /\ bad = {}

\* ------------------------------------------------ claims: a failed load
\* The loads in flight: those started that have neither failed nor succeeded.
InFlight(l, m) == l.started - l.failed - (IF m THEN 1 ELSE 0)

\* C39: when a load fails, every call that awaits it is rejected with the
\* loader's error and goes no further, the module stays unset and the facade's
\* flag stays as it was; with no promise and no module left, the next call of
\* initZstd starts a new load; and never is more than one load in flight.
C39_FailedLoadRetried ==
  [][/\ loads'.failed = loads.failed + 1
          => /\ \A c \in Inst : call[c].pc = "awaitInit" => call'[c].pc = "initFail"
             /\ ~module' /\ initPromise' = "null" /\ initialized' = initialized
     /\ \A c \in Inst :
          (call[c].pc = "initFail" /\ call'[c] # call[c])
            => (call'[c].pc = "done" /\ call'[c].err = "InitFailed" /\ ~call'[c].created)
     /\ (loads'.invoked = loads.invoked + 1 /\ loads.failed = loads.started)
          => (loads'.started = loads.started + 1 /\ initPromise' = "pending")
     /\ loads'.failed = loads'.started => ~module'
     /\ InFlight(loads', module') \in {0, 1}
     /\ InFlight(loads', module') = 1 <=> initPromise' = "pending"]_vars

\* C39 witness: two calls awaited the first load, which failed; one of them
\* was rejected with the loader's error, and the next call started a second
\* load, now in flight.
C39_Witness ==
  /\ loads.calls = 3 /\ loads.invoked = 3 /\ loads.started = 2 /\ loads.failed = 1
  /\ ~module /\ initPromise = "pending" /\ ~initialized
  /\ \E c \in Inst : call[c].pc = "done" /\ call[c].err = "InitFailed"
  /\ \E c \in Inst : call[c].pc = "awaitInit"

\* --------------------------------------------- claims: the loop comes to an end
Terminated == last.op \in {"returned", "thrown"}

\* The latest turn took in nothing and put something out, and the loop goes on.
FlushTurn ==
  /\ last.op = "process"
  /\ last.out # <<>>
  /\ last.out[1] = 0 /\ last.out[2] > 0

ReadOut ==
  /\ os.state \in {"closed", "errored"}
  /\ pipe.engine => (\E c \in Inst : c = job.stage /\ eng[c].destroyed)

\* C36 as stated: every read of the consumer settles in the end, and an
\* output stream that is open is in the end closed or errored with its engine
\* destroyed.
C36_ReadToTheEnd ==
  /\ os.readReq ~> ~os.readReq
  /\ (os.state = "readable") ~> ReadOut

\* C36 failing case: decompressStream was given the chunks compressStream
\* delivered, none of them empty; a pull processed a chunk that decoded to
\* nothing and returned.  The consumer's read is pending, the stream is open,
\* the engine holds its context, and no step of the pipeline is due.
C36_Witness ==
  /\ job.stage = 2 /\ call[2].api = "decompressStream"
  /\ ~Due
  /\ os.state = "readable" /\ os.readReq
  /\ ProcessLog(2) # <<>>
  /\ \A j \in 1..Len(ProcessLog(2)) :
       ProcessLog(2)[j].n > 0 /\ ProcessLog(2)[j].err = "none"
  /\ ~eng[2].destroyed /\ Live(heap) # {}

====
